---- MODULE Spec2Model ----
(***************************************************************************)
(* ITMS dashboard backend: telemetry decode (SensorDataParser), fault      *)
(* classification, the ingestion handler receive_sensor_data and the       *)
(* record store (tables sensor_readings and fault_logs).                   *)
(*                                                                         *)
(* Representation of Python values:                                        *)
(*   str    a sequence of one-character strings, <<"I","R",":","1">>       *)
(*   int    an integer                                                     *)
(*   float  a decimal [m |-> mantissa, e |-> places], value m / 10^e,      *)
(*          normalised (e = 0 or m not divisible by 10); exact for the     *)
(*          short decimal literals the inputs are made of                  *)
(*   dict   a function from field names to values                          *)
(*   None   the record [None |-> TRUE]                                     *)
(* The characters of the inputs are the digits, '+', '-', '.', '_', ':',   *)
(* ',', ' ', the upper-case letters of the keys, 'K' and 'x'; int()        *)
(* and float() are modelled exactly on strings over these characters (no   *)
(* exponent, inf or nan can be written with them).                         *)
(***************************************************************************)
EXTENDS Integers, Sequences, FiniteSets, TLC

None == [None |-> TRUE]

Range(s) == {s[i] : i \in 1..Len(s)}

(***************************************************************************)
(* str methods                                                             *)
(***************************************************************************)
Whitespace == {" "}

RECURSIVE lstrip(_)
lstrip(s) == IF s # <<>> /\ Head(s) \in Whitespace THEN lstrip(Tail(s)) ELSE s

RECURSIVE rstrip(_)
rstrip(s) ==
    IF s # <<>> /\ s[Len(s)] \in Whitespace
    THEN rstrip(SubSeq(s, 1, Len(s) - 1))
    ELSE s

\* str.strip()
strip(s) == rstrip(lstrip(s))

\* position of the first occurrence of character c in s, 0 when absent
find(s, c) ==
    IF c \in Range(s)
    THEN CHOOSE i \in 1..Len(s) : s[i] = c /\ \A j \in 1..(i - 1) : s[j] # c
    ELSE 0

\* str.split(sep): the list of pieces between the separators
RECURSIVE split(_, _)
split(s, sep) ==
    LET i == find(s, sep) IN
    IF i = 0 THEN <<s>>
    ELSE <<SubSeq(s, 1, i - 1)>> \o split(SubSeq(s, i + 1, Len(s)), sep)

\* str.split(sep, 1) on a string that contains sep: <<before, after>>
split1(s, sep) ==
    LET i == find(s, sep) IN <<SubSeq(s, 1, i - 1), SubSeq(s, i + 1, Len(s))>>

\* list.index(x): 0-based position of the first element equal to x
index(list, x) ==
    (CHOOSE i \in 1..Len(list) : list[i] = x /\ \A j \in 1..(i - 1) : list[j] # x) - 1

\* sep.join(list)
RECURSIVE join(_, _)
join(list, sep) ==
    IF list = <<>> THEN <<>>
    ELSE IF Len(list) = 1 THEN list[1]
    ELSE list[1] \o <<sep>> \o join(Tail(list), sep)

(***************************************************************************)
(* int() and float()                                                       *)
(***************************************************************************)
DigitChars == <<"0", "1", "2", "3", "4", "5", "6", "7", "8", "9">>

IsDigit(c) == c \in Range(DigitChars)

DigitVal(c) == (CHOOSE d \in 1..10 : DigitChars[d] = c) - 1

\* digitpart of the Python grammar: digit (["_"] digit)*
IsDigitPart(b) ==
    /\ b # <<>>
    /\ \A i \in 1..Len(b) : IsDigit(b[i]) \/ b[i] = "_"
    /\ IsDigit(b[1])
    /\ IsDigit(b[Len(b)])
    /\ \A i \in 1..(Len(b) - 1) : b[i] = "_" => b[i + 1] # "_"

\* value of a digitpart, underscores ignored
RECURSIVE DigitsValue(_, _)
DigitsValue(b, acc) ==
    IF b = <<>> THEN acc
    ELSE IF Head(b) = "_" THEN DigitsValue(Tail(b), acc)
    ELSE DigitsValue(Tail(b), acc * 10 + DigitVal(Head(b)))

NumDigits(b) == Cardinality({i \in 1..Len(b) : IsDigit(b[i])})

HasSign(s) == s # <<>> /\ Head(s) \in {"+", "-"}

Unsigned(s) == IF HasSign(s) THEN Tail(s) ELSE s

SignOf(s) == IF s # <<>> /\ Head(s) = "-" THEN -1 ELSE 1

\* int(value) does not raise ValueError
int_ok(value) == IsDigitPart(Unsigned(strip(value)))

IntOfStripped(s) == SignOf(s) * DigitsValue(Unsigned(s), 0)

\* int(value), for int_ok(value)
int(value) == IntOfStripped(strip(value))

RECURSIVE Pow10(_)
Pow10(n) == IF n = 0 THEN 1 ELSE 10 * Pow10(n - 1)

RECURSIVE Normalise(_)
Normalise(f) ==
    IF f.m = 0 THEN [m |-> 0, e |-> 0]
    ELSE IF f.e > 0 /\ f.m % 10 = 0 THEN Normalise([m |-> f.m \div 10, e |-> f.e - 1])
    ELSE f

\* the float with the value of the integer n
Float(n) == [m |-> n, e |-> 0]

\* floatnumber of the Python grammar without exponent:
\* digitpart | digitpart "." | [digitpart] "." digitpart
IsPointFloatParts(ip, fp) ==
    /\ ip = <<>> \/ IsDigitPart(ip)
    /\ fp = <<>> \/ IsDigitPart(fp)
    /\ ip # <<>> \/ fp # <<>>

IsPointFloatAt(b, d) ==
    IF d = 0 THEN IsDigitPart(b)
    ELSE IsPointFloatParts(SubSeq(b, 1, d - 1), SubSeq(b, d + 1, Len(b)))

IsPointFloat(b) == IsPointFloatAt(b, find(b, "."))

\* float(value) does not raise ValueError
float_ok(value) == IsPointFloat(Unsigned(strip(value)))

\* the float with this sign, integer part ip and fraction fp
FloatOfParts(sign, ip, fp) ==
    Normalise([m |-> sign * DigitsValue(ip \o fp, 0), e |-> NumDigits(fp)])

\* the float of the unsigned pointfloat b with its point at d, 0 without point
FloatAt(sign, b, d) ==
    IF d = 0 THEN FloatOfParts(sign, b, <<>>)
    ELSE FloatOfParts(sign, SubSeq(b, 1, d - 1), SubSeq(b, d + 1, Len(b)))

FloatOfStripped(s) == FloatAt(SignOf(s), Unsigned(s), find(Unsigned(s), "."))

\* float(value), for float_ok(value)
float(value) == FloatOfStripped(strip(value))

\* a < b on floats
FloatLess(a, b) == a.m * Pow10(b.e) < b.m * Pow10(a.e)

\* abs(a) on floats
FloatAbs(a) == [m |-> IF a.m < 0 THEN -a.m ELSE a.m, e |-> a.e]

(***************************************************************************)
(* SensorDataParser.parse_sensor_string                                    *)
(***************************************************************************)
K_IR == <<"I", "R">>
K_VIB_RAW == <<"V", "I", "B", "_", "R", "A", "W">>
K_DIST_ADJ == <<"D", "I", "S", "T", "_", "A", "D", "J">>
K_ACC == <<"A", "C", "C">>
K_FAULT == <<"F", "A", "U", "L", "T">>

\* the empty dict
EmptyDict == <<>>

\* d[k] = v
Put(d, k, v) == (k :> v) @@ d

\* outcome of a piece of the try body: the dict so far, and whether an
\* exception left the body
Continue(parsed_data) == [raised |-> FALSE, parsed_data |-> parsed_data]
Raise(parsed_data) == [raised |-> TRUE, parsed_data |-> parsed_data]

\* assign_int with the conversion error swallowed: the field keeps what it had
assign_int_lenient(parsed_data, field, value) ==
    IF int_ok(value)
    THEN Continue(Put(parsed_data, field, int(value)))
    ELSE Continue(parsed_data)

\* parsed_data[field] = int(value)
assign_int(parsed_data, field, value) ==
    IF int_ok(value)
    THEN Continue(Put(parsed_data, field, int(value)))
    ELSE Raise(parsed_data)

\* parsed_data[field] = float(value)
assign_float(parsed_data, field, value) ==
    IF float_ok(value)
    THEN Continue(Put(parsed_data, field, float(value)))
    ELSE Raise(parsed_data)

Acceleration(parsed_data, x, y, z) ==
    Put(Put(Put(parsed_data, "acceleration_x", x), "acceleration_y", y),
        "acceleration_z", z)

\* the ACC branch with the two followers read in the other order
assign_acc_swapped(parsed_data, components, component, value) ==
    IF ~float_ok(value)
    THEN Continue(Acceleration(parsed_data, Float(0), Float(0), Float(0)))
    ELSE LET acc_x == float(value)
             acc_y_idx == index(components, component) + 2
             acc_z_idx == index(components, component) + 1
         IN IF acc_y_idx < Len(components) /\ acc_z_idx < Len(components)
            THEN IF /\ float_ok(components[acc_y_idx + 1])
                    /\ float_ok(components[acc_z_idx + 1])
                 THEN Continue(Acceleration(parsed_data, acc_x,
                                            float(components[acc_y_idx + 1]),
                                            float(components[acc_z_idx + 1])))
                 ELSE Continue(Acceleration(parsed_data, Float(0), Float(0), Float(0)))
            ELSE Continue(Acceleration(parsed_data, acc_x, Float(0), Float(0)))

\* the ACC branch with its own try/except (ValueError, IndexError)
assign_acc(parsed_data, components, component, value) ==
    IF ~float_ok(value)
    THEN Continue(Acceleration(parsed_data, Float(0), Float(0), Float(0)))
    ELSE LET acc_x == float(value)
             acc_y_idx == index(components, component) + 1
             acc_z_idx == index(components, component) + 2
         IN IF acc_y_idx < Len(components) /\ acc_z_idx < Len(components)
            THEN IF /\ float_ok(components[acc_y_idx + 1])
                    /\ float_ok(components[acc_z_idx + 1])
                 THEN Continue(Acceleration(parsed_data, acc_x,
                                            float(components[acc_y_idx + 1]),
                                            float(components[acc_z_idx + 1])))
                 ELSE Continue(Acceleration(parsed_data, Float(0), Float(0), Float(0)))
            ELSE Continue(Acceleration(parsed_data, acc_x, Float(0), Float(0)))

\* one iteration of a loop that unpacks key, value before it looks for ':'
parse_component_strict(parsed_data, components, component) ==
    IF ":" \notin Range(component) THEN Raise(parsed_data)
    ELSE LET key == strip(split1(component, ":")[1])
             value == strip(split1(component, ":")[2])
         IN IF key = K_IR THEN assign_int(parsed_data, "ir_detection", value)
            ELSE IF key = K_VIB_RAW THEN assign_int(parsed_data, "vibration_raw", value)
            ELSE IF key = K_DIST_ADJ THEN assign_float(parsed_data, "distance_adjusted", value)
            ELSE IF key = K_ACC THEN assign_acc(parsed_data, components, component, value)
            ELSE IF key = K_FAULT THEN assign_int(parsed_data, "fault_detected", value)
            ELSE Continue(parsed_data)

\* one iteration of the loop over components
parse_component(parsed_data, components, component) ==
    IF ":" \notin Range(component) THEN Continue(parsed_data)
    ELSE LET key == strip(split1(component, ":")[1])
             value == strip(split1(component, ":")[2])
         IN IF key = K_IR THEN assign_int(parsed_data, "ir_detection", value)
            ELSE IF key = K_VIB_RAW THEN assign_int(parsed_data, "vibration_raw", value)
            ELSE IF key = K_DIST_ADJ THEN assign_float(parsed_data, "distance_adjusted", value)
            ELSE IF key = K_ACC THEN assign_acc(parsed_data, components, component, value)
            ELSE IF key = K_FAULT THEN assign_int(parsed_data, "fault_detected", value)
            ELSE Continue(parsed_data)

\* the loop: components i..len are still to be processed
RECURSIVE scan(_, _, _)
\* after component i: an exception leaves the loop, otherwise on to i + 1
scan_on(r, components, i) ==
    IF r.raised THEN r ELSE scan(r.parsed_data, components, i + 1)

scan(parsed_data, components, i) ==
    IF i > Len(components) THEN Continue(parsed_data)
    ELSE scan_on(parse_component(parsed_data, components, components[i]), components, i)

required_fields == <<"ir_detection", "vibration_raw", "distance_adjusted", "fault_detected">>

\* the dict at the end of the try body, or where the exception left it
scan_result(sensor_data) == scan(EmptyDict, split(strip(sensor_data), ","), 1)

\* lines 71-88: the required fields checked and the acceleration defaulted
validated(r, fields) ==
    IF r.raised THEN None
    ELSE IF \E f \in Range(fields) : f \notin DOMAIN r.parsed_data THEN None
    ELSE IF "acceleration_x" \notin DOMAIN r.parsed_data
         THEN Acceleration(r.parsed_data, Float(0), Float(0), Float(0))
         ELSE r.parsed_data

\* parse_sensor_string with ir_detection left out of the required fields
parse_sensor_string_ir_optional(sensor_data) ==
    validated(scan_result(sensor_data), Tail(required_fields))

parse_sensor_string(sensor_data) ==
    validated(scan_result(sensor_data), required_fields)

(***************************************************************************)
(* SensorDataParser.detect_faults                                          *)
(***************************************************************************)
VIBRATION_THRESHOLD_MIN == 400
VIBRATION_THRESHOLD_MAX == 450
DISTANCE_MIN_THRESHOLD == Float(5)
DISTANCE_MAX_THRESHOLD == Float(50)
ACC_THRESHOLD == 1000

\* dict.get(k, default)
get(d, k, default) == IF k \in DOMAIN d THEN d[k] ELSE default

\* The value of a field is a number or None: vibration_raw and ir_detection
\* hold ints, the other fields floats.  None stands for every value that is
\* no number: comparing it with a number and abs() of it raise TypeError,
\* == with a number is False.  Values of different kinds are told apart by
\* their printed form.
IsNumber(value) == ToString(value) # ToString(None)

\* a <= b on floats
FloatLeq(a, b) == ~FloatLess(b, a)

\* lines 96-101
NoFaults ==
    [vibration_fault |-> FALSE, distance_fault |-> FALSE,
     ir_fault |-> FALSE, acceleration_fault |-> FALSE]

\* outcome of a piece of the try body of detect_faults: the flags so far,
\* and whether an exception left the body
Checked(flags) == [raised |-> FALSE, faults |-> flags]
Caught(flags) == [raised |-> TRUE, faults |-> flags]

\* faults[name] = True when the condition holds
SetWhen(flags, name, condition) ==
    IF condition THEN [flags EXCEPT ![name] = TRUE] ELSE flags

\* the distance rule with the thresholds counted as faults
check_distance_inclusive(flags, distance) ==
    IF ~IsNumber(distance) THEN Caught(flags)
    ELSE Checked(SetWhen(flags, "distance_fault",
                         \/ FloatLeq(distance, DISTANCE_MIN_THRESHOLD)
                         \/ FloatLeq(DISTANCE_MAX_THRESHOLD, distance)))

\* lines 105-107
check_vibration(flags, vib_raw) ==
    IF ~IsNumber(vib_raw) THEN Caught(flags)
    ELSE Checked(SetWhen(flags, "vibration_fault",
                         /\ VIBRATION_THRESHOLD_MIN <= vib_raw
                         /\ vib_raw <= VIBRATION_THRESHOLD_MAX))

\* lines 110-112
check_distance(flags, distance) ==
    IF ~IsNumber(distance) THEN Caught(flags)
    ELSE Checked(SetWhen(flags, "distance_fault",
                         \/ FloatLess(distance, DISTANCE_MIN_THRESHOLD)
                         \/ FloatLess(DISTANCE_MAX_THRESHOLD, distance)))

\* lines 115-117: == raises for no value
check_ir(flags, ir_detection) ==
    Checked(SetWhen(flags, "ir_fault",
                    IsNumber(ir_detection) /\ ir_detection = 1))

\* lines 120-127
check_acceleration(flags, x, y, z) ==
    IF ~IsNumber(x) \/ ~IsNumber(y) \/ ~IsNumber(z) THEN Caught(flags)
    ELSE Checked(SetWhen(flags, "acceleration_fault",
                         \/ FloatLess(Float(ACC_THRESHOLD), FloatAbs(x))
                         \/ FloatLess(Float(ACC_THRESHOLD), FloatAbs(y))
                         \/ FloatLess(Float(ACC_THRESHOLD), FloatAbs(z))))

\* the rest of the try body after the vibration rule
after_vibration(r, parsed_data) ==
    IF r.raised THEN r
    ELSE check_distance(r.faults, get(parsed_data, "distance_adjusted", Float(0)))

after_distance(r, parsed_data) ==
    IF r.raised THEN r
    ELSE check_ir(r.faults, get(parsed_data, "ir_detection", 0))

after_ir(r, parsed_data) ==
    IF r.raised THEN r
    ELSE check_acceleration(r.faults,
                            get(parsed_data, "acceleration_x", Float(0)),
                            get(parsed_data, "acceleration_y", Float(0)),
                            get(parsed_data, "acceleration_z", Float(0)))

\* one try around the four rules; the except clause logs and falls through
\* to the return of the flags set so far
detect_faults(parsed_data) ==
    after_ir(after_distance(after_vibration(
                check_vibration(NoFaults, get(parsed_data, "vibration_raw", 0)),
                parsed_data), parsed_data), parsed_data).faults

(***************************************************************************)
(* SensorDataParser.parse_timestamp                                        *)
(*                                                                         *)
(* A datetime is the number of seconds after 2025-09-28T12:00:00.  The     *)
(* timestamp strings of the inputs are "2025-09-28T12:00:SS", with or      *)
(* without a trailing "Z", and strings that are no ISO date at all.        *)
(***************************************************************************)
IsoMinute == <<"2", "0", "2", "5", "-", "0", "9", "-", "2", "8", "T", "1", "2", ":", "0", "0", ":">>
UtcOffset == <<"+", "0", "0", ":", "0", "0">>

endswith(s, suffix) ==
    Len(s) >= Len(suffix) /\ SubSeq(s, Len(s) - Len(suffix) + 1, Len(s)) = suffix

\* timestamp_str.replace('Z', '+00:00') for a string that ends with its only Z
replace_Z(s) == SubSeq(s, 1, Len(s) - 1) \o UtcOffset

\* datetime.fromisoformat(s) does not raise ValueError
fromisoformat_ok(s) ==
    LET t == IF endswith(s, UtcOffset) THEN SubSeq(s, 1, Len(s) - Len(UtcOffset)) ELSE s
    IN /\ Len(t) = Len(IsoMinute) + 2
       /\ SubSeq(t, 1, Len(IsoMinute)) = IsoMinute
       /\ IsDigit(t[Len(t) - 1]) /\ IsDigit(t[Len(t)])
       /\ DigitVal(t[Len(t) - 1]) < 6

\* datetime.fromisoformat(s), for fromisoformat_ok(s)
fromisoformat(s) ==
    LET t == IF endswith(s, UtcOffset) THEN SubSeq(s, 1, Len(s) - Len(UtcOffset)) ELSE s
    IN DigitVal(t[Len(t) - 1]) * 10 + DigitVal(t[Len(t)])

\* the fallback taken as the start of the epoch
parse_timestamp_epoch(timestamp_str, utcnow) ==
    LET s == IF endswith(timestamp_str, <<"Z">>) THEN replace_Z(timestamp_str)
             ELSE timestamp_str
    IN IF fromisoformat_ok(s) THEN fromisoformat(s) ELSE 0

parse_timestamp(timestamp_str, utcnow) ==
    LET s == IF endswith(timestamp_str, <<"Z">>) THEN replace_Z(timestamp_str)
             ELSE timestamp_str
    IN IF fromisoformat_ok(s) THEN fromisoformat(s) ELSE utcnow

(***************************************************************************)
(* SensorDataParser.process_sensor_input                                   *)
(*                                                                         *)
(* The bool True that line 180 stores in fault_detected is the int 1       *)
(* (True == 1 in Python), so that the field holds numbers only.            *)
(***************************************************************************)
\* any(faults.values())
any_fault(faults) ==
    \/ faults.vibration_fault
    \/ faults.distance_fault
    \/ faults.ir_fault
    \/ faults.acceleration_fault

\* {**a, **b}
Merge(a, b) == b @@ a

\* lines 170-176: the combined dict
combined(parsed_data, timestamp, sensor_data, faults) ==
    Merge(Merge([timestamp |-> timestamp, raw_sensor_data |-> sensor_data],
                parsed_data),
          faults)

\* lines 178-182: the overall fault status overridden by the flags
overridden(result, faults) ==
    IF any_fault(faults) THEN Put(result, "fault_detected", 1) ELSE result

\* lines 164-182, for the reading that parse_sensor_string returned
with_faults(parsed_data, sensor_data, timestamp_str, utcnow) ==
    overridden(combined(parsed_data, parse_timestamp(timestamp_str, utcnow),
                        sensor_data, detect_faults(parsed_data)),
               detect_faults(parsed_data))

\* lines 161-182
process_parsed(parsed_data, sensor_data, timestamp_str, utcnow) ==
    IF parsed_data = None THEN None
    ELSE with_faults(parsed_data, sensor_data, timestamp_str, utcnow)

\* a failed decode replaced by an all-zero reading
or_zero_reading(parsed_data) ==
    IF parsed_data = None
    THEN Acceleration([ir_detection |-> 0, vibration_raw |-> 0,
                       distance_adjusted |-> Float(18), fault_detected |-> 0],
                      Float(0), Float(0), Float(0))
    ELSE parsed_data

\* process_sensor_input that replaces a failed decode by an all-zero reading
process_sensor_input_zero_reading(sensor_data, timestamp_str, utcnow) ==
    with_faults(or_zero_reading(parse_sensor_string(sensor_data)),
                sensor_data, timestamp_str, utcnow)

\* lines 161-176 without the override of lines 178-180
process_parsed_declared_only(parsed_data, sensor_data, timestamp_str, utcnow) ==
    IF parsed_data = None THEN None
    ELSE combined(parsed_data, parse_timestamp(timestamp_str, utcnow),
                  sensor_data, detect_faults(parsed_data))

\* process_sensor_input that keeps the declared fault bit as it was sent
process_sensor_input_declared_only(sensor_data, timestamp_str, utcnow) ==
    process_parsed_declared_only(parse_sensor_string(sensor_data),
                                 sensor_data, timestamp_str, utcnow)

process_sensor_input(sensor_data, timestamp_str, utcnow) ==
    process_parsed(parse_sensor_string(sensor_data), sensor_data, timestamp_str, utcnow)

(***************************************************************************)
(* The sender: generate_sensor_data formats the wire string with an        *)
(* f-string, an int by str() and a float by repr().                        *)
(***************************************************************************)
RECURSIVE str_nat(_)
str_nat(n) == IF n < 10 THEN <<DigitChars[n + 1]>>
              ELSE str_nat(n \div 10) \o <<DigitChars[(n % 10) + 1]>>

\* str(n) for an int
str_int(n) == IF n < 0 THEN <<"-">> \o str_nat(-n) ELSE str_nat(n)

\* the digits of n, left-padded with zeros to width w
RECURSIVE zfill(_, _)
zfill(d, w) == IF Len(d) >= w THEN d ELSE zfill(<<"0">> \o d, w)

\* repr(f) for a float: always with a decimal point, "18.0", "-0.5"
repr_float(f) ==
    LET a == IF f.m < 0 THEN -f.m ELSE f.m
        sign == IF f.m < 0 THEN <<"-">> ELSE <<>>
    IN IF f.e = 0 THEN sign \o str_nat(a) \o <<".", "0">>
       ELSE sign \o str_nat(a \div Pow10(f.e)) \o <<".">>
                 \o zfill(str_nat(a % Pow10(f.e)), f.e)

\* a number held by the sender, an int or a float: its value as a decimal
\* and its type
IntNum(n) == [t |-> "int", v |-> Float(n)]
FloatNum(f) == [t |-> "float", v |-> f]

\* f"{x}"
fmt(x) == IF x.t = "int" THEN str_int(x.v.m) ELSE repr_float(x.v)

\* the float that is numerically equal to the sender's number
AsFloat(x) == x.v

\* f"IR:{ir},VIB_RAW:{vib},DIST_ADJ:{dist},ACC:{ax},{ay},{az},FAULT:{fault}"
sensor_data_string(v) ==
    K_IR \o <<":">> \o str_int(v.ir) \o <<",">>
    \o K_VIB_RAW \o <<":">> \o str_int(v.vib) \o <<",">>
    \o K_DIST_ADJ \o <<":">> \o fmt(v.dist) \o <<",">>
    \o K_ACC \o <<":">> \o fmt(v.ax) \o <<",">> \o fmt(v.ay) \o <<",">> \o fmt(v.az) \o <<",">>
    \o K_FAULT \o <<":">> \o str_int(v.fault)

(***************************************************************************)
(* The record store: tables sensor_readings and fault_logs.  A row's id is *)
(* its position in the table (integer primary key, no row is deleted).     *)
(***************************************************************************)
\* Column(Boolean) accepts None, True and False only; the ints 0 and 1
\* compare equal to False and True, every other value raises in the flush
BooleanAccepts(value) == value \in {0, 1}

\* DBSensorReading(...): the row built from processed_data, before its id
DBSensorReading(processed_data) ==
    [timestamp |-> processed_data.timestamp,
     ir_detection |-> processed_data.ir_detection,
     vibration_raw |-> processed_data.vibration_raw,
     vibration_fault |-> processed_data.vibration_fault,
     distance_adjusted |-> processed_data.distance_adjusted,
     distance_fault |-> processed_data.distance_fault,
     acceleration_x |-> processed_data.acceleration_x,
     acceleration_y |-> processed_data.acceleration_y,
     acceleration_z |-> processed_data.acceleration_z,
     fault_detected |-> (processed_data.fault_detected = 1),
     raw_sensor_data |-> processed_data.raw_sensor_data]

\* DBFaultLog(...): resolved and timestamp take their column defaults
DBFaultLog(fault_type, severity, description, sensor_reading_id, utcnow) ==
    [timestamp |-> utcnow,
     fault_type |-> fault_type,
     severity |-> severity,
     description |-> description,
     sensor_reading_id |-> sensor_reading_id,
     resolved |-> FALSE,
     resolved_at |-> <<>>]

\* the obstruction logged once for the detection and once for the fault
new_fault_logs_ir_twice(processed_data, reading_id, utcnow) ==
    (IF processed_data.vibration_fault
     THEN <<DBFaultLog("vibration", "major",
                       <<"Vibration threshold exceeded", processed_data.vibration_raw>>,
                       reading_id, utcnow)>>
     ELSE <<>>)
    \o (IF processed_data.distance_fault
        THEN <<DBFaultLog("distance", "minor",
                          <<"Distance out of range", processed_data.distance_adjusted>>,
                          reading_id, utcnow)>>
        ELSE <<>>)
    \o (IF processed_data.ir_detection # 0
        THEN <<DBFaultLog("ir", "critical", <<"Track obstruction detected">>,
                          reading_id, utcnow),
               DBFaultLog("ir", "critical", <<"Track obstruction detected">>,
                          reading_id, utcnow)>>
        ELSE <<>>)
    \o (IF get(processed_data, "acceleration_fault", FALSE)
        THEN <<DBFaultLog("acceleration", "major", <<"Unusual acceleration detected">>,
                          reading_id, utcnow)>>
        ELSE <<>>)

\* the fault logs receive_sensor_data adds to the session, in order
new_fault_logs(processed_data, reading_id, utcnow) ==
    (IF processed_data.vibration_fault
     THEN <<DBFaultLog("vibration", "major",
                       <<"Vibration threshold exceeded", processed_data.vibration_raw>>,
                       reading_id, utcnow)>>
     ELSE <<>>)
    \o (IF processed_data.distance_fault
        THEN <<DBFaultLog("distance", "minor",
                          <<"Distance out of range", processed_data.distance_adjusted>>,
                          reading_id, utcnow)>>
        ELSE <<>>)
    \o (IF processed_data.ir_detection # 0
        THEN <<DBFaultLog("ir", "critical", <<"Track obstruction detected">>,
                          reading_id, utcnow)>>
        ELSE <<>>)
    \o (IF get(processed_data, "acceleration_fault", FALSE)
        THEN <<DBFaultLog("acceleration", "major", <<"Unusual acceleration detected">>,
                          reading_id, utcnow)>>
        ELSE <<>>)

\* rows appended to a table get the next ids
Insert(table, rows) ==
    table \o [i \in 1..Len(rows) |-> Put(rows[i], "id", Len(table) + i)]

\* the row added last
latest_reading_inserted(table) ==
    IF table = <<>> THEN {<<>>} ELSE {<<table[Len(table)]>>}

\* order_by(desc(timestamp)).first(): the lists of zero or one row the query
\* can return.  Among rows with the same greatest timestamp SQL leaves the
\* choice to the query plan.
latest_reading(table) ==
    IF table = <<>> THEN {<<>>}
    ELSE {<<table[i]>> : i \in {k \in 1..Len(table) :
                                  \A j \in 1..Len(table) :
                                     table[j].timestamp <= table[k].timestamp}}

(***************************************************************************)
(* The floats of lines 185-194 and their rounding in lines 213-215.  The   *)
(* quotients are binary64 values and round(x, 2) rounds the value the      *)
(* double holds, ties to the even neighbour.  Where the exact quotient is  *)
(* half-way between two hundredths the double is computed bit by bit: the  *)
(* operands converted, added in the order of the rows, multiplied and      *)
(* divided with one rounding each.  Where it is not half-way, the exact    *)
(* quotient is rounded: it is at least 1 / (200 * d) away from a half-way  *)
(* point for the denominator d, and the double is nearer to it than that   *)
(* for counts below 2^23, and for averages of fewer than 1000 values below *)
(* 10^5 with at most two decimal places.  The definitions cover these      *)
(* ranges.  A binary64 value is sign * the number its 53 bits spell *      *)
(* 2^exp, zero has no bits.                                                *)
(***************************************************************************)
\* |n|
Magnitude(n) == IF n < 0 THEN -n ELSE n

\* round(n / d) for integers n and d > 0, ties to the even neighbour
RECURSIVE RoundHalfEven(_, _)
RoundHalfEven(n, d) ==
    IF n < 0 THEN -RoundHalfEven(-n, d)
    ELSE IF 2 * (n % d) < d THEN n \div d
    ELSE IF 2 * (n % d) > d THEN (n \div d) + 1
    ELSE IF (n \div d) % 2 = 0 THEN n \div d
    ELSE (n \div d) + 1

\* n / d, rounded to two places as a decimal
round2(n, d) == Normalise([m |-> RoundHalfEven(n * 100, d), e |-> 2])

\* n / d lies half-way between two hundredths
HalfWay(n, d) == 2 * ((Magnitude(n) * 100) % d) = d

MANTISSA == 53

Binary64Zero == [sign |-> 1, bits |-> <<>>, exp |-> 0]

Zeros(n) == [i \in 1..n |-> 0]

\* the bits b with zeros before them, n bits in all
Padded(b, n) == Zeros(n - Len(b)) \o b

\* the bits without their leading zeros
StripZeros(b) ==
    IF \A i \in 1..Len(b) : b[i] = 0 THEN <<>>
    ELSE SubSeq(b, CHOOSE i \in 1..Len(b) : b[i] = 1 /\ \A j \in 1..(i - 1) : b[j] = 0, Len(b))

\* the bits of a natural number below 2^31, the most significant first
BitsOfNat(n) == StripZeros([i \in 1..31 |-> (n \div 2^(31 - i)) % 2])

\* the number plus one
Increment(b) ==
    IF \A i \in 1..Len(b) : b[i] = 1 THEN <<1>> \o Zeros(Len(b))
    ELSE [i \in 1..Len(b) |->
            IF \E j \in (i + 1)..Len(b) : b[j] = 0 THEN b[i]
            ELSE IF b[i] = 0 THEN 1
            ELSE 0]

\* a < b for two numbers without leading zeros
LessBits(a, b) ==
    IF Len(a) # Len(b) THEN Len(a) < Len(b)
    ELSE \E i \in 1..Len(a) : a[i] < b[i] /\ \A j \in 1..(i - 1) : a[j] = b[j]

\* the carry into position i of a + b, for two numbers of the same length
CarryInto(a, b, i) ==
    \E j \in (i + 1)..Len(a) :
        a[j] + b[j] = 2 /\ \A k \in (i + 1)..(j - 1) : a[k] + b[k] = 1

SumBits(a, b) ==
    [i \in 1..Len(a) |-> (a[i] + b[i] + (IF CarryInto(a, b, i) THEN 1 ELSE 0)) % 2]

\* a + b
AddBits(a, b) ==
    SumBits(Padded(a, 1 + (IF Len(a) > Len(b) THEN Len(a) ELSE Len(b))),
            Padded(b, 1 + (IF Len(a) > Len(b) THEN Len(a) ELSE Len(b))))

\* the borrow from position i of a - b, for two numbers of the same length
BorrowFrom(a, b, i) ==
    \E j \in (i + 1)..Len(a) :
        a[j] < b[j] /\ \A k \in (i + 1)..(j - 1) : a[k] = b[k]

DifferenceBits(a, b) ==
    [i \in 1..Len(a) |-> (a[i] - b[i] - (IF BorrowFrom(a, b, i) THEN 1 ELSE 0) + 2) % 2]

\* a - b for a >= b
SubBits(a, b) == DifferenceBits(a, Padded(b, Len(a)))

\* b * k for a natural k
RECURSIVE TimesBits(_, _)
TimesBits(b, k) ==
    IF k = 0 THEN <<>>
    ELSE IF k % 2 = 1 THEN AddBits(b, TimesBits(b, k \div 2) \o <<0>>)
    ELSE TimesBits(b, k \div 2) \o <<0>>

\* round to nearest, ties to even: the binary64 value of sign * b * 2^exp,
\* where b has no leading zero and sticky tells that the exact number is
\* above b * 2^exp by less than 2^exp
Rounded(sign, b, exp, sticky) ==
    IF b = <<>> THEN Binary64Zero
    ELSE IF Len(b) <= MANTISSA
    THEN [sign |-> sign, bits |-> b \o Zeros(MANTISSA - Len(b)),
          exp |-> exp - (MANTISSA - Len(b))]
    ELSE IF /\ b[MANTISSA + 1] = 1
            /\ \/ sticky
               \/ b[MANTISSA] = 1
               \/ \E i \in (MANTISSA + 2)..Len(b) : b[i] = 1
    THEN [sign |-> sign,
          bits |-> SubSeq(Increment(SubSeq(b, 1, MANTISSA)), 1, MANTISSA),
          exp |-> exp + Len(b) - MANTISSA
                    + (IF \A i \in 1..MANTISSA : b[i] = 1 THEN 1 ELSE 0)]
    ELSE [sign |-> sign, bits |-> SubSeq(b, 1, MANTISSA), exp |-> exp + Len(b) - MANTISSA]

\* eight bits and the number they spell
Byte(n) == [i \in 1..8 |-> (n \div 2^(8 - i)) % 2]
ByteValue(b) ==
    b[1] * 128 + b[2] * 64 + b[3] * 32 + b[4] * 16 + b[5] * 8 + b[6] * 4 + b[7] * 2 + b[8]

\* long division of the bytes b by d below 2^23, a byte of quotient q for
\* each, continued below them until the quotient has two bits more than a
\* mantissa or the division ends: r is the remainder so far, fraction the
\* number of quotient bits below the bytes
RECURSIVE Division(_, _, _, _, _)
Division(b, d, q, r, fraction) ==
    IF b # <<>>
    THEN Division(SubSeq(b, 9, Len(b)), d,
                  q \o Byte((r * 256 + ByteValue(b)) \div d),
                  (r * 256 + ByteValue(b)) % d, 0)
    ELSE IF r = 0 \/ Len(StripZeros(q)) >= MANTISSA + 2
    THEN [bits |-> q, rem |-> r, fraction |-> fraction]
    ELSE Division(<<>>, d, q \o Byte((r * 256) \div d), (r * 256) % d, fraction + 8)

\* the quotient of a division, rounded
RoundedQuotient(sign, quotient, exp) ==
    Rounded(sign, StripZeros(quotient.bits), exp - quotient.fraction, quotient.rem # 0)

\* the double nearest to sign * b * 2^exp / d for a natural d > 0
Quotient(sign, b, exp, d) ==
    RoundedQuotient(sign, Division(Padded(b, 8 * ((Len(b) + 7) \div 8)), d, <<>>, 0, 0), exp)

\* the double nearest to n / d for naturals n and d > 0: int / int of line
\* 185, and the double a decimal literal or a Float column holds
Binary64OfRatio(sign, n, d) == Quotient(sign, BitsOfNat(n), 0, d)

Binary64Of(f) ==
    IF f.m < 0 THEN Binary64OfRatio(-1, -f.m, Pow10(f.e)) ELSE Binary64OfRatio(1, f.m, Pow10(f.e))

\* x * k for a natural k
Binary64Times(x, k) == Rounded(x.sign, StripZeros(TimesBits(x.bits, k)), x.exp, FALSE)

\* x / d for a natural d > 0
Binary64Over(x, d) == Quotient(x.sign, x.bits, x.exp, d)

\* the bits of x with the weight 2^exp, for exp <= x.exp
Aligned(x, exp) == x.bits \o Zeros(x.exp - exp)

\* x + y for two values that are not zero, in units of 2^exp
PlusAligned(x, y, exp) ==
    IF x.sign = y.sign
    THEN Rounded(x.sign, StripZeros(AddBits(Aligned(x, exp), Aligned(y, exp))), exp, FALSE)
    ELSE IF LessBits(Aligned(x, exp), Aligned(y, exp))
    THEN Rounded(y.sign, StripZeros(SubBits(Aligned(y, exp), Aligned(x, exp))), exp, FALSE)
    ELSE Rounded(x.sign, StripZeros(SubBits(Aligned(x, exp), Aligned(y, exp))), exp, FALSE)

\* x + y
Binary64Plus(x, y) ==
    IF x.bits = <<>> THEN y
    ELSE IF y.bits = <<>> THEN x
    ELSE PlusAligned(x, y, IF x.exp < y.exp THEN x.exp ELSE y.exp)

\* rSum of SQLite's avg(): the values added in the order of the rows
RECURSIVE Binary64Sum(_, _)
Binary64Sum(values, acc) ==
    IF values = <<>> THEN acc
    ELSE Binary64Sum(Tail(values), Binary64Plus(acc, Binary64Of(Head(values))))

\* |x| compared with p / q for naturals p and q > 0: -1, 0 or 1
CompareBits(a, b) == IF LessBits(a, b) THEN -1 ELSE IF LessBits(b, a) THEN 1 ELSE 0

CompareMagnitude(x, p, q) ==
    CompareBits(StripZeros(TimesBits(x.bits, q)) \o Zeros(IF x.exp > 0 THEN x.exp ELSE 0),
                BitsOfNat(p) \o Zeros(IF x.exp < 0 THEN -x.exp ELSE 0))

\* round(x, 2) in hundredths for a double x that lies between the hundredths
\* k and k + 1 of its magnitude
RoundedBetween(x, k) ==
    x.sign * (IF CompareMagnitude(x, 2 * k + 1, 200) < 0 THEN k
              ELSE IF CompareMagnitude(x, 2 * k + 1, 200) > 0 THEN k + 1
              ELSE IF k % 2 = 0 THEN k
              ELSE k + 1)

\* round(x, 2) for the double x that stands for n / d
round_double(x, n, d) ==
    IF HalfWay(n, d)
    THEN Normalise([m |-> RoundedBetween(x, (Magnitude(n) * 100) \div d), e |-> 2])
    ELSE round2(n, d)

\* round(total_faults / total_readings * 100, 2)
round_rate(total_faults, total_readings) ==
    IF HalfWay(total_faults * 100, total_readings)
    THEN round_double(Binary64Times(Binary64OfRatio(1, total_faults, total_readings), 100),
                      total_faults * 100, total_readings)
    ELSE round2(total_faults * 100, total_readings)

\* the largest number of decimal places among these floats
RECURSIVE Places(_)
Places(values) ==
    IF values = <<>> THEN 0
    ELSE IF Head(values).e > Places(Tail(values)) THEN Head(values).e
    ELSE Places(Tail(values))

\* the sum of these floats, counted in units of 10^-places
RECURSIVE Sum(_, _)
Sum(values, places) ==
    IF values = <<>> THEN 0
    ELSE Head(values).m * Pow10(places - Head(values).e) + Sum(Tail(values), places)

\* round(float(func.avg(column)) if avg else 0, 2): the average of no row is
\* NULL, and an average of 0.0 is falsy as well
avg_rounded(values) ==
    IF values = <<>> THEN Float(0)
    ELSE IF HalfWay(Sum(values, Places(values)), Len(values) * Pow10(Places(values)))
    THEN round_double(Binary64Over(Binary64Sum(values, Binary64Zero), Len(values)),
                      Sum(values, Places(values)), Len(values) * Pow10(Places(values)))
    ELSE round2(Sum(values, Places(values)), Len(values) * Pow10(Places(values)))

\* the values of the two averaged columns, as floats
vibration_column(table) == [i \in 1..Len(table) |-> Float(table[i].vibration_raw)]
distance_column(table) == [i \in 1..Len(table) |-> table[i].distance_adjusted]

\* the rate left as a fraction of one
fault_rate_fraction(total_faults, total_readings) ==
    IF total_readings > 0 THEN round2(total_faults, total_readings) ELSE Float(0)

\* lines 185 and 213
fault_rate(total_faults, total_readings) ==
    IF total_readings > 0 THEN round_rate(total_faults, total_readings) ELSE Float(0)

\* line 198: the timestamp of the row of line 197, None as the empty list
last_reading_time(latest) == [i \in 1..Len(latest) |-> latest[i].timestamp]

\* lines 201-205.  Every timestamp and clock value of the model lies on one
\* calendar day, so that func.date(timestamp) == today holds for each row.
ir_detections_today(reading_table) ==
    Cardinality({i \in 1..Len(reading_table) : reading_table[i].ir_detection = 1})

\* line 208
active_faults(fault_table) ==
    Cardinality({i \in 1..Len(fault_table) : fault_table[i].resolved = FALSE})

\* lines 210-219: the answer made of what the six queries returned
SensorStats(selected, active) ==
    [total_readings |-> selected.total_readings,
     total_faults |-> selected.total_faults,
     fault_rate |-> fault_rate(selected.total_faults, selected.total_readings),
     avg_vibration |-> selected.avg_vibration,
     avg_distance |-> selected.avg_distance,
     last_reading_time |-> selected.last_reading_time,
     ir_detections_today |-> selected.ir_detections_today,
     active_faults |-> active]

\* get_sensor_stats when its six queries read the same tables.  Every row
\* that line 197 can return carries the same timestamp.
get_sensor_stats(reading_table, fault_table) ==
    SensorStats([total_readings |-> Len(reading_table),
                 total_faults |-> Len(fault_table),
                 avg_vibration |-> avg_rounded(vibration_column(reading_table)),
                 avg_distance |-> avg_rounded(distance_column(reading_table)),
                 last_reading_time |->
                    last_reading_time(CHOOSE latest \in latest_reading(reading_table) : TRUE),
                 ir_detections_today |-> ir_detections_today(reading_table)],
                active_faults(fault_table))

\* the thresholds of lines 240 and 242, in seconds
DISCONNECTED_AFTER == 10
WARNING_AFTER == 5

\* the status with the thresholds themselves counted as exceeded
connection_status_inclusive(latest, utcnow) ==
    IF latest = <<>> THEN "no_data"
    ELSE IF utcnow - latest[1].timestamp >= DISCONNECTED_AFTER THEN "disconnected"
    ELSE IF utcnow - latest[1].timestamp >= WARNING_AFTER THEN "warning"
    ELSE "connected"

\* lines 236-245, for the list of zero or one latest reading
connection_status(latest, utcnow) ==
    IF latest = <<>> THEN "no_data"
    ELSE IF utcnow - latest[1].timestamp > DISCONNECTED_AFTER THEN "disconnected"
    ELSE IF utcnow - latest[1].timestamp > WARNING_AFTER THEN "warning"
    ELSE "connected"

\* lines 247-253; recent_readings and recent_faults, the first rows of the
\* two tables in descending order of timestamp, are left out
DashboardData(latest, stats_data, utcnow) ==
    [latest_reading |-> latest,
     stats |-> stats_data,
     connection_status |-> connection_status(latest, utcnow)]

\* get_dashboard_data when all its queries read the same tables and line 225
\* returned this row
get_dashboard_data(latest, reading_table, fault_table, utcnow) ==
    DashboardData(latest, get_sensor_stats(reading_table, fault_table), utcnow)

\* a resolve that flips the flag of the fault
mark_resolved_toggle(fault_table, fault_id, utcnow) ==
    [fault_table EXCEPT ![fault_id] = [@ EXCEPT !.resolved = ~@, !.resolved_at = <<utcnow>>]]

\* the fault with this id changed as lines 165-166 change it
mark_resolved(fault_table, fault_id, utcnow) ==
    [fault_table EXCEPT ![fault_id] = [@ EXCEPT !.resolved = TRUE, !.resolved_at = <<utcnow>>]]

(***************************************************************************)
(* Synthetic readings.  main.py builds the application with lifespan=      *)
(* (line 32) and registers start_fallback_generator with                   *)
(* on_event("startup") (line 57).  The framework runs the lifespan context *)
(* in place of the startup hooks, so the hook is never called and          *)
(* generator_loop never runs: the route /api/simulate/once is the one      *)
(* place that adds a synthetic reading.                                    *)
(***************************************************************************)
\* asyncio.sleep(2) of generator_loop
WAKE_EVERY == 2

\* main.py lines 134-153: the row simulate_once adds for the numbers it drew
fallback_reading(v, utcnow) ==
    [timestamp |-> utcnow,
     ir_detection |-> v.ir,
     vibration_raw |-> v.vib,
     vibration_fault |->
        VIBRATION_THRESHOLD_MIN <= v.vib /\ v.vib <= VIBRATION_THRESHOLD_MAX,
     distance_adjusted |-> AsFloat(v.dist),
     distance_fault |->
        \/ FloatLess(AsFloat(v.dist), DISTANCE_MIN_THRESHOLD)
        \/ FloatLess(DISTANCE_MAX_THRESHOLD, AsFloat(v.dist)),
     acceleration_x |-> AsFloat(v.ax),
     acceleration_y |-> AsFloat(v.ay),
     acceleration_z |-> AsFloat(v.az),
     fault_detected |-> v.fault = 1,
     raw_sensor_data |-> sensor_data_string(v)]

\* main.py line 136: FAULT is 1 when a fault flag is set or IR is 1
with_fault_bit(v) ==
    [ir |-> v.ir, vib |-> v.vib, dist |-> v.dist, ax |-> v.ax, ay |-> v.ay, az |-> v.az,
     fault |-> IF \/ VIBRATION_THRESHOLD_MIN <= v.vib /\ v.vib <= VIBRATION_THRESHOLD_MAX
                  \/ FloatLess(AsFloat(v.dist), DISTANCE_MIN_THRESHOLD)
                  \/ FloatLess(DISTANCE_MAX_THRESHOLD, AsFloat(v.dist))
                  \/ v.ir = 1
               THEN 1 ELSE 0]

(***************************************************************************)
(* Inputs of the ingestion endpoint                                        *)
(***************************************************************************)
MaxReadings == 2
MaxTime == 1

Workers == {"w1", "w2"}

\* IR:0,VIB_RAW:100,DIST_ADJ:18,FAULT:0
WireQuiet ==
    <<"I", "R", ":", "0", ",", "V", "I", "B", "_", "R", "A", "W", ":", "1", "0", "0", ",", "D", "I", "S", "T", "_", "A", "D", "J", ":", "1", "8", ",", "F", "A", "U", "L", "T", ":", "0">>

\* IR:1,VIB_RAW:435,DIST_ADJ:18,ACC:123,456,789,FAULT:1
WireFaulty ==
    <<"I", "R", ":", "1", ",", "V", "I", "B", "_", "R", "A", "W", ":", "4", "3", "5", ",", "D", "I", "S", "T", "_", "A", "D", "J", ":", "1", "8", ",", "A", "C", "C", ":", "1", "2", "3", ",", "4", "5", "6", ",", "7", "8", "9", ",", "F", "A", "U", "L", "T", ":", "1">>

\* IR:2,VIB_RAW:100,DIST_ADJ:3,FAULT:0
WireIrTwo ==
    <<"I", "R", ":", "2", ",", "V", "I", "B", "_", "R", "A", "W", ":", "1", "0", "0", ",", "D", "I", "S", "T", "_", "A", "D", "J", ":", "3", ",", "F", "A", "U", "L", "T", ":", "0">>

\* VIB_RAW:100,DIST_ADJ:20,FAULT:0
WireNoIr ==
    <<"V", "I", "B", "_", "R", "A", "W", ":", "1", "0", "0", ",", "D", "I", "S", "T", "_", "A", "D", "J", ":", "2", "0", ",", "F", "A", "U", "L", "T", ":", "0">>

\* IR:0,VIB_RAW:100,DIST_ADJ:18,ACC:1001,0,0,FAULT:0
WireAccFault ==
    <<"I", "R", ":", "0", ",", "V", "I", "B", "_", "R", "A", "W", ":", "1", "0", "0", ",", "D", "I", "S", "T", "_", "A", "D", "J", ":", "1", "8", ",", "A", "C", "C", ":", "1", "0", "0", "1", ",", "0", ",", "0", ",", "F", "A", "U", "L", "T", ":", "0">>

\* IR:0,VIB_RAW:100,DIST_ADJ:18,FAULT:1
WireDeclared ==
    <<"I", "R", ":", "0", ",", "V", "I", "B", "_", "R", "A", "W", ":", "1", "0", "0", ",", "D", "I", "S", "T", "_", "A", "D", "J", ":", "1", "8", ",", "F", "A", "U", "L", "T", ":", "1">>

\* IR:0,VIB_RAW:100,DIST_ADJ:18,FAULT:2
WireDeclaredTwo ==
    <<"I", "R", ":", "0", ",", "V", "I", "B", "_", "R", "A", "W", ":", "1", "0", "0", ",", "D", "I", "S", "T", "_", "A", "D", "J", ":", "1", "8", ",", "F", "A", "U", "L", "T", ":", "2">>

\* IR:x,VIB_RAW:100,DIST_ADJ:18,FAULT:0
WireIrBad ==
    <<"I", "R", ":", "x", ",", "V", "I", "B", "_", "R", "A", "W", ":", "1", "0", "0", ",", "D", "I", "S", "T", "_", "A", "D", "J", ":", "1", "8", ",", "F", "A", "U", "L", "T", ":", "0">>

IngestStrings ==
    {WireQuiet, WireFaulty, WireIrTwo, WireNoIr, WireAccFault, WireDeclared,
     WireDeclaredTwo, WireIrBad}

TimestampStrings == {IsoMinute \o <<"0", "1">>, <<"x">>}

\* SensorDataInput
Payloads == [sensorData : IngestStrings, timestamp : TimestampStrings]

(***************************************************************************)
(* Inputs of the service in operation: the server starts OpsStart seconds  *)
(* after 12:00:00; senders stamp their readings with the time of the start *)
(* or a time before it.  Where the clock runs, it runs for MaxElapsed      *)
(* seconds.                                                                *)
(***************************************************************************)
OpsStart == 10
MaxElapsed == 2
\* the rows sensor_readings can hold, those of simulate_once included
MaxRows == 3

\* the connection that ingests
OpsWorkers == {"w1"}
\* the connection that resolves faults while the other one ingests
ResolveWorkers == {"w2"}

OpsStrings == {WireQuiet, WireFaulty, WireNoIr, WireDeclaredTwo}

OpsTimestampStrings == {IsoMinute \o <<"0", "5">>, IsoMinute \o <<"1", "0">>}

\* the payloads of the service in operation, all stamped 12:00:05
OpsPayloads == [sensorData : OpsStrings, timestamp : {IsoMinute \o <<"0", "5">>}]

\* the payloads sent to a store that holds earlier readings
LatestPayloads == [sensorData : OpsStrings, timestamp : OpsTimestampStrings]

OpsClock == OpsStart..(OpsStart + MaxElapsed)

\* the numbers simulate_once draws: a reading without fault flag, and an
\* obstruction reading in the vibration band
SimulatedQuiet ==
    with_fault_bit([ir |-> 0, vib |-> 330, dist |-> FloatNum(Float(10)),
                    ax |-> IntNum(-200), ay |-> IntNum(200), az |-> IntNum(9000)])

SimulatedObstruction ==
    with_fault_bit([ir |-> 1, vib |-> 435, dist |-> FloatNum([m |-> 127, e |-> 1]),
                    ax |-> IntNum(0), ay |-> IntNum(0), az |-> IntNum(11000)])

SimulatedValues == {SimulatedQuiet, SimulatedObstruction}

\* the draw of simulate_once while faults are being resolved
OpsSimulated == {SimulatedObstruction}

\* process_sensor_input tabulated over the payloads and the clock values
ProcessedRows ==
    {[data |-> data, utcnow |-> utcnow,
      result |-> process_sensor_input(data.sensorData, data.timestamp, utcnow)] :
        data \in Payloads, utcnow \in 0..MaxTime}
    \cup
    {[data |-> data, utcnow |-> utcnow,
      result |-> process_sensor_input(data.sensorData, data.timestamp, utcnow)] :
        data \in LatestPayloads, utcnow \in OpsClock}

Processed(data, utcnow) ==
    (CHOOSE row \in ProcessedRows : row.data = data /\ row.utcnow = utcnow).result

(***************************************************************************)
(* State                                                                   *)
(***************************************************************************)
VARIABLES
    readings,       \* table sensor_readings
    fault_logs,     \* table fault_logs
    now,            \* datetime.utcnow()
    pc,             \* per handler: "idle", "reading_committed" between the two commits
                    \* of receive_sensor_data, "fault_found" and "fault_marked" between
                    \* the statements of resolve_fault
    req,            \* per handler: the local variables of the call in progress
    response,       \* what receive_sensor_data answered in the last step
    stats,          \* what get_sensor_stats returned in the last step
    dashboard,      \* what get_dashboard_data returned in the last step
    resolution,     \* what resolve_fault answered in the last step
    query,          \* the call of get_sensor_stats or get_dashboard_data in progress
    sender,         \* the numbers the sender formatted into telemetry, if any
    telemetry,      \* the string handed to parse_sensor_string
    decoded,        \* its result
    classifier_input, \* the dict handed to detect_faults
    classified      \* its result

vars == <<readings, fault_logs, now, pc, req, response, stats, dashboard, resolution,
          query, sender, telemetry, decoded, classifier_input, classified>>

store == <<readings, fault_logs>>
decoder == <<sender, telemetry, decoded>>
classifier == <<classifier_input, classified>>

Pending == [Pending |-> TRUE]

HTTP_200 == 200
HTTP_400 == 400
HTTP_404 == 404
HTTP_500 == 500

\* the body of a 200 response
Success(reading_id, fault_names) ==
    [status_code |-> HTTP_200,
     detail |-> "Sensor data received and stored",
     reading_id |-> reading_id,
     faults_detected |-> fault_names]

\* HTTPException(status_code=500, detail=f"Error processing sensor data: {str(e)}")
Failure(e) ==
    [status_code |-> HTTP_500,
     detail |-> e,
     reading_id |-> 0,
     faults_detected |-> <<>>]

\* str(e) of the exceptions the try body raises
InvalidFormat == "400: Invalid sensor data format"
StoreError == "store error"

\* FaultResponse(success=True, message="Fault marked as resolved", fault_id=fault_id)
FaultResponse(fault_id) ==
    [status_code |-> HTTP_200, detail |-> "Fault marked as resolved", fault_id |-> fault_id]

\* HTTPException(status_code=404, detail="Fault not found")
FaultNotFound(fault_id) ==
    [status_code |-> HTTP_404, detail |-> "Fault not found", fault_id |-> fault_id]

\* the unhandled exception of a failed commit in resolve_fault
FaultNotResolved(fault_id) ==
    [status_code |-> HTTP_500, detail |-> StoreError, fault_id |-> fault_id]

Init ==
    /\ readings = <<>>
    /\ fault_logs = <<>>
    /\ now = 0
    /\ pc = [w \in Workers |-> "idle"]
    /\ req = [w \in Workers |-> None]
    /\ response = None
    /\ stats = None
    /\ dashboard = None
    /\ resolution = None
    /\ query = None
    /\ sender = <<>>
    /\ telemetry = <<>>
    /\ decoded = Pending
    /\ classifier_input = <<>>
    /\ classified = Pending

(***************************************************************************)
(* receive_sensor_data.  The handler commits twice: the reading (line 53), *)
(* then the fault logs (line 98).  Every exception in the try body,        *)
(* the HTTPException of line 35 included, reaches the except clause of     *)
(* line 110: rollback of the open transaction and a 500 response.          *)
(* A step that returns nothing to a client leaves the four results None.   *)
(***************************************************************************)
\* lines 29-35 and 110-113: process_sensor_input returns None
receive_invalid(w, data) ==
    /\ pc[w] = "idle"
    /\ Processed(data, now) = None
    /\ response' = Failure(InvalidFormat)
    /\ stats' = None /\ dashboard' = None /\ resolution' = None
    /\ UNCHANGED <<readings, fault_logs, now, pc, req, query, decoder, classifier>>

\* lines 38-53 and 110-113: the flush of the reading raises on a
\* fault_detected that the Boolean column does not accept
receive_reading_rejected(w, data) ==
    /\ pc[w] = "idle"
    /\ Processed(data, now) # None
    /\ ~BooleanAccepts(Processed(data, now).fault_detected)
    /\ response' = Failure(StoreError)
    /\ stats' = None /\ dashboard' = None /\ resolution' = None
    /\ UNCHANGED <<readings, fault_logs, now, pc, req, query, decoder, classifier>>

\* lines 38-54: the reading is committed and refreshed
receive_reading_commit(w, data) ==
    /\ pc[w] = "idle"
    /\ Len(readings) < MaxReadings
    /\ Processed(data, now) # None
    /\ BooleanAccepts(Processed(data, now).fault_detected)
    /\ readings' = Insert(readings, <<DBSensorReading(Processed(data, now))>>)
    /\ pc' = [pc EXCEPT ![w] = "reading_committed"]
    /\ req' = [req EXCEPT ![w] = [processed_data |-> Processed(data, now),
                                  reading_id |-> Len(readings) + 1]]
    /\ response' = None /\ stats' = None /\ dashboard' = None /\ resolution' = None
    /\ UNCHANGED <<fault_logs, now, query, decoder, classifier>>

\* lines 52-53 and 110-113: the store fails the first commit
receive_reading_commit_fails(w, data) ==
    /\ pc[w] = "idle"
    /\ Processed(data, now) # None
    /\ BooleanAccepts(Processed(data, now).fault_detected)
    /\ response' = Failure(StoreError)
    /\ stats' = None /\ dashboard' = None /\ resolution' = None
    /\ UNCHANGED <<readings, fault_logs, now, pc, req, query, decoder, classifier>>

\* fault_logs.append(...): the categories named in the response
faults_detected(rows) == [i \in 1..Len(rows) |-> rows[i].fault_type]

\* lines 56-108: the fault logs are added and committed
receive_faults_commit(w) ==
    /\ pc[w] = "reading_committed"
    /\ fault_logs' = Insert(fault_logs,
                            new_fault_logs(req[w].processed_data, req[w].reading_id, now))
    /\ response' = Success(req[w].reading_id,
                           faults_detected(new_fault_logs(req[w].processed_data,
                                                          req[w].reading_id, now)))
    /\ stats' = None /\ dashboard' = None /\ resolution' = None
    /\ pc' = [pc EXCEPT ![w] = "idle"]
    /\ req' = [req EXCEPT ![w] = None]
    /\ UNCHANGED <<readings, now, query, decoder, classifier>>

\* lines 98 and 110-113: the store fails the second commit; the rollback
\* discards the pending fault logs, the reading stays committed
receive_faults_commit_fails(w) ==
    /\ pc[w] = "reading_committed"
    /\ response' = Failure(StoreError)
    /\ stats' = None /\ dashboard' = None /\ resolution' = None
    /\ pc' = [pc EXCEPT ![w] = "idle"]
    /\ req' = [req EXCEPT ![w] = None]
    /\ UNCHANGED <<readings, fault_logs, now, query, decoder, classifier>>

(***************************************************************************)
(* get_sensor_stats and get_dashboard_data.  Each db.query(...) is a       *)
(* statement of its own: the session opens no transaction for a SELECT, so *)
(* a commit of another connection can fall between two of them.  query     *)
(* holds what the call in progress has read so far and the statement it    *)
(* runs next; the model follows one such call at a time.                   *)
(***************************************************************************)
\* lines 176-179, GET /stats: the call starts and counts the readings
stats_query ==
    /\ query = None
    /\ query' = [call |-> "stats", next |-> "total_faults",
                 total_readings |-> Len(readings)]
    /\ response' = None /\ stats' = None /\ dashboard' = None /\ resolution' = None
    /\ UNCHANGED <<readings, fault_logs, now, pc, req, decoder, classifier>>

\* lines 222-231, GET /dashboard: the call starts and reads the latest
\* reading, then the recent readings and faults
dashboard_query ==
    /\ query = None
    /\ \E latest \in latest_reading(readings) :
          query' = [call |-> "dashboard", next |-> "total_readings",
                    latest_reading |-> latest]
    /\ response' = None /\ stats' = None /\ dashboard' = None /\ resolution' = None
    /\ UNCHANGED <<readings, fault_logs, now, pc, req, decoder, classifier>>

\* lines 234 and 179: get_dashboard_data calls get_sensor_stats, which
\* counts the readings
select_total_readings ==
    /\ query # None
    /\ query.next = "total_readings"
    /\ query' = Merge(query, [next |-> "total_faults", total_readings |-> Len(readings)])
    /\ response' = None /\ stats' = None /\ dashboard' = None /\ resolution' = None
    /\ UNCHANGED <<readings, fault_logs, now, pc, req, decoder, classifier>>

\* line 182
select_total_faults ==
    /\ query # None
    /\ query.next = "total_faults"
    /\ query' = Merge(query, [next |-> "avg_stats", total_faults |-> Len(fault_logs)])
    /\ response' = None /\ stats' = None /\ dashboard' = None /\ resolution' = None
    /\ UNCHANGED <<readings, fault_logs, now, pc, req, decoder, classifier>>

\* lines 188-194
select_avg_stats ==
    /\ query # None
    /\ query.next = "avg_stats"
    /\ query' = Merge(query, [next |-> "last_reading",
                              avg_vibration |-> avg_rounded(vibration_column(readings)),
                              avg_distance |-> avg_rounded(distance_column(readings))])
    /\ response' = None /\ stats' = None /\ dashboard' = None /\ resolution' = None
    /\ UNCHANGED <<readings, fault_logs, now, pc, req, decoder, classifier>>

\* lines 197-198
select_last_reading ==
    /\ query # None
    /\ query.next = "last_reading"
    /\ \E latest \in latest_reading(readings) :
          query' = Merge(query, [next |-> "ir_detections_today",
                                 last_reading_time |-> last_reading_time(latest)])
    /\ response' = None /\ stats' = None /\ dashboard' = None /\ resolution' = None
    /\ UNCHANGED <<readings, fault_logs, now, pc, req, decoder, classifier>>

\* lines 201-205
select_ir_detections_today ==
    /\ query # None
    /\ query.next = "ir_detections_today"
    /\ query' = Merge(query, [next |-> "active_faults",
                              ir_detections_today |-> ir_detections_today(readings)])
    /\ response' = None /\ stats' = None /\ dashboard' = None /\ resolution' = None
    /\ UNCHANGED <<readings, fault_logs, now, pc, req, decoder, classifier>>

\* a last statement that marks the fault events it has counted as resolved
select_active_faults_marking ==
    /\ query # None
    /\ query.next = "active_faults"
    /\ fault_logs' = [i \in 1..Len(fault_logs) |-> [fault_logs[i] EXCEPT !.resolved = TRUE]]
    /\ IF query.call = "stats"
       THEN /\ stats' = SensorStats(query, active_faults(fault_logs))
            /\ dashboard' = None
       ELSE /\ stats' = None
            /\ dashboard' = DashboardData(query.latest_reading,
                                          SensorStats(query, active_faults(fault_logs)), now)
    /\ query' = None
    /\ response' = None /\ resolution' = None
    /\ UNCHANGED <<readings, now, pc, req, decoder, classifier>>

\* lines 208-219, and lines 236-253 in a call of get_dashboard_data: the
\* unresolved faults are counted and the call answers
select_active_faults ==
    /\ query # None
    /\ query.next = "active_faults"
    /\ IF query.call = "stats"
       THEN /\ stats' = SensorStats(query, active_faults(fault_logs))
            /\ dashboard' = None
       ELSE /\ stats' = None
            /\ dashboard' = DashboardData(query.latest_reading,
                                          SensorStats(query, active_faults(fault_logs)), now)
    /\ query' = None
    /\ response' = None /\ resolution' = None
    /\ UNCHANGED <<readings, fault_logs, now, pc, req, decoder, classifier>>

\* the clock advances by one second
Tick ==
    /\ now < MaxTime
    /\ now' = now + 1
    /\ response' = None /\ stats' = None /\ dashboard' = None /\ resolution' = None
    /\ UNCHANGED <<readings, fault_logs, pc, req, query, decoder, classifier>>

Next ==
    \/ \E w \in Workers, data \in Payloads : receive_invalid(w, data)
    \/ \E w \in Workers, data \in Payloads : receive_reading_rejected(w, data)
    \/ \E w \in Workers, data \in Payloads : receive_reading_commit(w, data)
    \/ \E w \in Workers, data \in Payloads : receive_reading_commit_fails(w, data)
    \/ \E w \in Workers : receive_faults_commit(w)
    \/ \E w \in Workers : receive_faults_commit_fails(w)
    \/ Tick

Spec == Init /\ [][Next]_vars

(***************************************************************************)
(* The service in operation: ingestion next to resolve_fault, the two      *)
(* aggregation endpoints and simulate_once, within one second of the       *)
(* clock.                                                                  *)
(***************************************************************************)
InitOps ==
    /\ readings = <<>>
    /\ fault_logs = <<>>
    /\ now = OpsStart
    /\ pc = [w \in Workers |-> "idle"]
    /\ req = [w \in Workers |-> None]
    /\ response = None
    /\ stats = None
    /\ dashboard = None
    /\ resolution = None
    /\ query = None
    /\ sender = <<>>
    /\ telemetry = <<>>
    /\ decoded = Pending
    /\ classifier_input = <<>>
    /\ classified = Pending

\* resolve_fault runs in three statements with nothing that holds them
\* together: the SELECT of line 161, the assignments of lines 165-166 that
\* read the clock, and the commit of line 167 that sends the UPDATE.  A
\* commit of another connection and a tick of the clock can fall between
\* them.
\* lines 161-162: the fault is found
resolve_fault_found(w, fault_id) ==
    /\ pc[w] = "idle"
    /\ fault_id \in 1..Len(fault_logs)
    /\ pc' = [pc EXCEPT ![w] = "fault_found"]
    /\ req' = [req EXCEPT ![w] = [fault_id |-> fault_id]]
    /\ response' = None /\ stats' = None /\ dashboard' = None /\ resolution' = None
    /\ UNCHANGED <<readings, fault_logs, now, query, decoder, classifier>>

\* lines 161-163: no fault has this id
resolve_fault_not_found(w, fault_id) ==
    /\ pc[w] = "idle"
    /\ fault_id \notin 1..Len(fault_logs)
    /\ resolution' = FaultNotFound(fault_id)
    /\ response' = None /\ stats' = None /\ dashboard' = None
    /\ UNCHANGED <<readings, fault_logs, now, pc, req, query, decoder, classifier>>

\* lines 165-166: the session's copy of the fault is changed, resolved_at is
\* the clock value of this statement
resolve_fault_marked(w) ==
    /\ pc[w] = "fault_found"
    /\ pc' = [pc EXCEPT ![w] = "fault_marked"]
    /\ req' = [req EXCEPT ![w] = [fault_id |-> req[w].fault_id, resolved_at |-> now]]
    /\ response' = None /\ stats' = None /\ dashboard' = None /\ resolution' = None
    /\ UNCHANGED <<readings, fault_logs, now, query, decoder, classifier>>

\* lines 167-173: the change is written and committed, the call answers
resolve_fault_commit(w) ==
    /\ pc[w] = "fault_marked"
    /\ fault_logs' = mark_resolved(fault_logs, req[w].fault_id, req[w].resolved_at)
    /\ resolution' = FaultResponse(req[w].fault_id)
    /\ pc' = [pc EXCEPT ![w] = "idle"]
    /\ req' = [req EXCEPT ![w] = None]
    /\ response' = None /\ stats' = None /\ dashboard' = None
    /\ UNCHANGED <<readings, now, query, decoder, classifier>>

\* line 167: the store fails the commit, the change is lost with the session
resolve_fault_commit_fails(w) ==
    /\ pc[w] = "fault_marked"
    /\ resolution' = FaultNotResolved(req[w].fault_id)
    /\ pc' = [pc EXCEPT ![w] = "idle"]
    /\ req' = [req EXCEPT ![w] = None]
    /\ response' = None /\ stats' = None /\ dashboard' = None
    /\ UNCHANGED <<readings, fault_logs, now, query, decoder, classifier>>

\* main.py lines 121-157, GET /api/simulate/once: a synthetic reading
\* stamped with the current time is added and committed
simulate_once(v) ==
    /\ Len(readings) < MaxRows
    /\ readings' = Insert(readings, <<fallback_reading(v, now)>>)
    /\ response' = None /\ stats' = None /\ dashboard' = None /\ resolution' = None
    /\ UNCHANGED <<fault_logs, now, pc, req, query, decoder, classifier>>

\* one second passes
Elapse ==
    /\ now < OpsStart + MaxElapsed
    /\ now' = now + 1
    /\ response' = None /\ stats' = None /\ dashboard' = None /\ resolution' = None
    /\ UNCHANGED <<readings, fault_logs, pc, req, query, decoder, classifier>>

NextOps ==
    \/ \E w \in OpsWorkers, data \in OpsPayloads : receive_invalid(w, data)
    \/ \E w \in OpsWorkers, data \in OpsPayloads : receive_reading_rejected(w, data)
    \/ \E w \in OpsWorkers, data \in OpsPayloads : receive_reading_commit(w, data)
    \/ \E w \in OpsWorkers, data \in OpsPayloads : receive_reading_commit_fails(w, data)
    \/ \E w \in OpsWorkers : receive_faults_commit(w)
    \/ \E w \in OpsWorkers : receive_faults_commit_fails(w)
    \/ \E w \in ResolveWorkers, fault_id \in 1..(Len(fault_logs) + 1) :
          resolve_fault_found(w, fault_id)
    \/ \E w \in ResolveWorkers, fault_id \in 1..(Len(fault_logs) + 1) :
          resolve_fault_not_found(w, fault_id)
    \/ \E w \in ResolveWorkers : resolve_fault_marked(w)
    \/ \E w \in ResolveWorkers : resolve_fault_commit(w)
    \/ \E w \in ResolveWorkers : resolve_fault_commit_fails(w)
    \/ stats_query
    \/ dashboard_query
    \/ select_total_readings
    \/ select_total_faults
    \/ select_avg_stats
    \/ select_last_reading
    \/ select_ir_detections_today
    \/ select_active_faults
    \/ \E v \in OpsSimulated : simulate_once(v)

SpecOps == InitOps /\ [][NextOps]_vars

(***************************************************************************)
(* resolve_fault against the clock: events are ingested and two            *)
(* connections resolve them while seconds pass.  A call that read the      *)
(* clock on line 166 and commits after a later call has committed stores   *)
(* its earlier resolved_at over the later one; resolved stays True.        *)
(***************************************************************************)
NextResolve ==
    \/ \E w \in OpsWorkers, data \in OpsPayloads : receive_reading_commit(w, data)
    \/ \E w \in OpsWorkers : receive_faults_commit(w)
    \/ \E w \in Workers, fault_id \in 1..(Len(fault_logs) + 1) :
           resolve_fault_found(w, fault_id)
    \/ \E w \in Workers, fault_id \in 1..(Len(fault_logs) + 1) :
           resolve_fault_not_found(w, fault_id)
    \/ \E w \in Workers : resolve_fault_marked(w)
    \/ \E w \in Workers : resolve_fault_commit(w)
    \/ \E w \in Workers : resolve_fault_commit_fails(w)
    \/ Elapse

SpecResolve == InitOps /\ [][NextResolve]_vars

\* a resolve_fault call has just stored a resolved_at that is behind the
\* clock of its commit
StaleResolvedAt ==
    /\ resolution # None
    /\ resolution.status_code = HTTP_200
    /\ fault_logs[resolution.fault_id].resolved_at[1] < now

\* a commit of resolve_fault replaces the resolved_at of an event by an
\* earlier one
ResolvedAtSetBack ==
    \E i \in 1..Len(fault_logs) :
        /\ fault_logs[i].resolved_at # <<>>
        /\ fault_logs'[i].resolved_at[1] < fault_logs[i].resolved_at[1]

(***************************************************************************)
(* Properties of ingestion and of the store                                *)
(***************************************************************************)
\* parse_sensor_string tabulated over the ingested strings
DecodedRows ==
    {[string |-> string, result |-> parse_sensor_string(string)] : string \in IngestStrings}

DecodedOf(string) == (CHOOSE row \in DecodedRows : row.string = string).result

\* the payloads whose string parse_sensor_string fails on
UndecodablePayloads == {data \in Payloads : DecodedOf(data.sensorData) = None}

\* one call of receive_sensor_data starts with this payload in handler w
Received(w, data) ==
    \/ receive_invalid(w, data)
    \/ receive_reading_rejected(w, data)
    \/ receive_reading_commit(w, data)
    \/ receive_reading_commit_fails(w, data)

\* C1: when parse_sensor_string fails on a string, process_sensor_input
\* returns None for it and the receive_sensor_data call adds no
\* SensorReading and no FaultLog to the store.
C1_FailClosed ==
    [][\A w \in Workers, data \in UndecodablePayloads :
          Received(w, data) =>
              /\ Processed(data, now) = None
              /\ readings' = readings
              /\ fault_logs' = fault_logs
              /\ pc'[w] = "idle"
              /\ response'.status_code # HTTP_200]_vars

\* a call with an undecodable string was answered, and the store is empty
C1_Witness ==
    /\ response # None
    /\ response.detail = InvalidFormat
    /\ readings = <<>>
    /\ fault_logs = <<>>

\* the flags the classifier sets for the reading stored in a row
FlagsOf(row) == detect_faults(DecodedOf(row.raw_sensor_data))

\* the fault events of those flags, in the order of creation
ExpectedEvents(flags) ==
    (IF flags.vibration_fault THEN << <<"vibration", "major">> >> ELSE <<>>)
    \o (IF flags.distance_fault THEN << <<"distance", "minor">> >> ELSE <<>>)
    \o (IF flags.ir_fault THEN << <<"ir", "critical">> >> ELSE <<>>)
    \o (IF flags.acceleration_fault THEN << <<"acceleration", "major">> >> ELSE <<>>)

\* the stored fault events linked to reading i, in store order
EventsOf(i) ==
    LET linked == {j \in 1..Len(fault_logs) : fault_logs[j].sensor_reading_id = i}
        nth[k \in 0..Len(fault_logs)] ==
            IF k = 0 THEN 0
            ELSE CHOOSE j \in linked : j > nth[k - 1] /\ \A l \in linked : l > nth[k - 1] => j <= l
    IN [k \in 1..Cardinality(linked) |->
            <<fault_logs[nth[k]].fault_type, fault_logs[nth[k]].severity>>]

\* every fault event that reading i triggered is stored
AllEventsStored(i) ==
    \A k \in 1..Len(ExpectedEvents(FlagsOf(readings[i]))) :
        \E j \in 1..Len(fault_logs) :
            /\ fault_logs[j].sensor_reading_id = i
            /\ fault_logs[j].fault_type = ExpectedEvents(FlagsOf(readings[i]))[k][1]

\* the call that wrote reading i has not returned yet
InFlight(i) ==
    \E w \in Workers : pc[w] = "reading_committed" /\ req[w].reading_id = i

\* C2: after any receive_sensor_data call, also one whose write of the fault
\* events fails after the write of the record succeeded, the store holds the
\* new record together with all of its fault events or neither of them.
C2_OneTransaction ==
    \A i \in 1..Len(readings) : ~InFlight(i) => AllEventsStored(i)

\* reading i was written by receive_sensor_data: a synthetic reading carries
\* a string that no sender has sent
Ingested(i) == readings[i].raw_sensor_data \in IngestStrings

\* C3: every store state an aggregation query reads holds, for each record
\* written by receive_sensor_data, all of the fault events of that record:
\* when a call counts the fault events, those of every reading it has counted
\* are stored.
C3_AggregationSeesWholeIngestions ==
    [][select_total_faults =>
          \A i \in 1..query.total_readings :
              Ingested(i) => AllEventsStored(i)]_vars

\* C4: the fault_detected stored with a reading is true if and only if the
\* declared FAULT bit is 1 or one of the four classifier flags is true.
C4_StoredFaultBit ==
    \A i \in 1..Len(readings) :
        readings[i].fault_detected <=>
            \/ DecodedOf(readings[i].raw_sensor_data).fault_detected = 1
            \/ any_fault(FlagsOf(readings[i]))

\* stored: a reading declared FAULT:0 that a flag raised to true, and a
\* reading declared FAULT:1 without any flag
C4_Witness ==
    /\ \E i \in 1..Len(readings) :
          /\ readings[i].fault_detected
          /\ DecodedOf(readings[i].raw_sensor_data).fault_detected = 0
    /\ \E i \in 1..Len(readings) :
          /\ readings[i].fault_detected
          /\ ~any_fault(FlagsOf(readings[i]))

\* C5: a successful ingestion has created exactly one fault event for each
\* flag the classifier set to true and none for a false flag, in the order
\* vibration, distance, ir, acceleration with severities major, minor,
\* critical, major, each linked to the new record; also for IR values other
\* than 0 and 1.
C5_OneEventPerTrueFlag ==
    (response # None /\ response.status_code = HTTP_200) =>
        EventsOf(response.reading_id)
            = ExpectedEvents(FlagsOf(readings[response.reading_id]))

(***************************************************************************)
(* Decoding on its own: parse_sensor_string applied to one telemetry       *)
(* string drawn from three families of inputs.                             *)
(***************************************************************************)
MaxExtra == 1
MaxAccTokens == 6
\* the longest token list of which every reordering is decoded
MaxPermuted == 5

\* the token of each required key: a convertible value, an inconvertible one
RequiredTokens ==
    <<[good |-> <<"I", "R", ":", "1">>, bad |-> <<"I", "R", ":", "x">>],
      [good |-> <<"V", "I", "B", "_", "R", "A", "W", ":", " ", "4", "3", "5">>, bad |-> <<"V", "I", "B", "_", "R", "A", "W", ":", "4", ".", "5">>],
      [good |-> <<"D", "I", "S", "T", "_", "A", "D", "J", ":", "1", "8", ".", "5">>, bad |-> <<"D", "I", "S", "T", "_", "A", "D", "J", ":">>],
      [good |-> <<"F", "A", "U", "L", "T", ":", "0">>, bad |-> <<"F", "A", "U", "L", "T", ":", "-">>]>>

\* tokens the decoder skips: no ':' separator, unknown key
UnknownTokens == {<<"I", "R">>, <<"K", ":", "9">>}

\* tokens inserted among the required ones
ExtraTokens == UnknownTokens \cup {<<"I", "R", ":", "x">>}

\* tokens that follow the ACC key on the wire
AccTokens == {<<"A", "C", "C", ":", "1">>, <<"2">>, <<"5">>, <<"A", "C", "C", ":", "x">>}

Variant == {"absent", "good", "bad"}

\* the required tokens in wire order, each absent, good or bad
RECURSIVE Chosen(_, _)
Chosen(c, k) ==
    IF k > Len(RequiredTokens) THEN <<>>
    ELSE (IF c[k] = "absent" THEN <<>> ELSE <<RequiredTokens[k][c[k]]>>)
         \o Chosen(c, k + 1)

\* list.insert(pos, token)
InsertAt(list, pos, token) ==
    SubSeq(list, 1, pos) \o <<token>> \o SubSeq(list, pos + 1, Len(list))

\* the token lists with at most n more tokens of T inserted anywhere
RECURSIVE WithInserted(_, _, _)
WithInserted(lists, T, n) ==
    IF n = 0 THEN lists
    ELSE lists \cup WithInserted(UNION {{InsertAt(l, pos, t) : pos \in 0..Len(l), t \in T} :
                                            l \in lists}, T, n - 1)

AllSeqs(T, n) == UNION {[1..k -> T] : k \in 0..n}

\* family 1: each required token absent, good or bad, and extra tokens
RequiredFamily ==
    WithInserted({Chosen(c, 1) : c \in [1..Len(RequiredTokens) -> Variant]},
                 ExtraTokens, MaxExtra)

\* family 2: the required tokens, all good, with ACC tokens before FAULT
AccFamily ==
    {<<RequiredTokens[1].good, RequiredTokens[2].good, RequiredTokens[3].good>>
        \o tail \o <<RequiredTokens[4].good>> : tail \in AllSeqs(AccTokens, MaxAccTokens)}

\* family 3: the numbers a sender formats into the wire string
SenderValues ==
    [ir : {0, 1},
     vib : {0, 435, 1023},
     dist : {IntNum(18), FloatNum([m |-> 185, e |-> 1]), FloatNum(Float(3))},
     ax : {IntNum(123), IntNum(-200)},
     ay : {IntNum(456), FloatNum([m |-> -5, e |-> 2])},
     az : {IntNum(789), IntNum(10000)},
     fault : {0, 1}]

DecodeInputs ==
    {[sent |-> <<>>, string |-> join(tokens, ",")] : tokens \in RequiredFamily \cup AccFamily}
    \cup {[sent |-> <<v>>, string |-> sensor_data_string(v)] : v \in SenderValues}

InitDecode ==
    /\ readings = <<>>
    /\ fault_logs = <<>>
    /\ now = 0
    /\ pc = [w \in Workers |-> "idle"]
    /\ req = [w \in Workers |-> None]
    /\ response = None
    /\ stats = None
    /\ dashboard = None
    /\ resolution = None
    /\ query = None
    /\ classifier_input = <<>>
    /\ classified = Pending
    /\ decoded = Pending
    /\ \E input \in DecodeInputs :
        /\ sender = input.sent
        /\ telemetry = input.string

Decode ==
    /\ decoded = Pending
    /\ decoded' = parse_sensor_string(telemetry)
    /\ UNCHANGED <<readings, fault_logs, now, pc, req, response, stats, dashboard,
                   resolution, query, sender, telemetry, classifier>>

NextDecode == Decode

SpecDecode == InitDecode /\ [][NextDecode]_vars

(***************************************************************************)
(* Properties of the decoder, stated over the tokens of the wire string.   *)
(***************************************************************************)
\* the tokens of a wire string, in wire order
Tokens(wire) == split(strip(wire), ",")

\* the token is KEY:VALUE with this key
HasKey(token, key) == ":" \in Range(token) /\ strip(split1(token, ":")[1]) = key

ValueOf(token) == strip(split1(token, ":")[2])

RequiredKeys == {K_IR, K_VIB_RAW, K_DIST_ADJ, K_FAULT}
RecognizedKeys == RequiredKeys \cup {K_ACC}

\* the token's value converts to the numeric type of this key
Convertible(token, key) ==
    IF key \in {K_DIST_ADJ, K_ACC} THEN float_ok(ValueOf(token)) ELSE int_ok(ValueOf(token))

\* some token of this key carries a value that converts
PopulatedByToken(tokens, key) ==
    \E i \in 1..Len(tokens) : HasKey(tokens[i], key) /\ Convertible(tokens[i], key)

\* some token of one of these keys carries a value that does not convert
ConversionFailure(tokens, keys) ==
    \E i \in 1..Len(tokens) : \E key \in keys :
        HasKey(tokens[i], key) /\ ~Convertible(tokens[i], key)

AccelerationIs(reading, x, y, z) ==
    /\ reading.acceleration_x = x
    /\ reading.acceleration_y = y
    /\ reading.acceleration_z = z

ReadingFields ==
    Range(required_fields) \cup {"acceleration_x", "acceleration_y", "acceleration_z"}

\* a complete reading, or the failure value when a required field is missing;
\* without an ACC token the acceleration of a reading is 0.0, 0.0, 0.0
NeverPartial ==
    LET tokens == Tokens(telemetry) IN
    /\ decoded # None => DOMAIN decoded = ReadingFields
    /\ (\E key \in RequiredKeys : ~PopulatedByToken(tokens, key)) => decoded = None
    /\ (decoded # None /\ \A i \in 1..Len(tokens) : ~HasKey(tokens[i], K_ACC))
          => AccelerationIs(decoded, Float(0), Float(0), Float(0))

\* C6 as written: parse_sensor_string returns a reading if and only if each
\* of the four required fields was populated by a token of the input; it
\* never returns a partial reading, and without an ACC token the three
\* acceleration fields are 0.0.
C6_ReadingIffPopulated ==
    decoded # Pending =>
        /\ decoded # None <=>
              \A key \in RequiredKeys : PopulatedByToken(Tokens(telemetry), key)
        /\ NeverPartial

\* C6 amended: parse_sensor_string returns a reading if and only if each of
\* the four required fields was populated by a token of the input and no
\* token with key IR, VIB_RAW, DIST_ADJ or FAULT carries a value that fails
\* to convert; it never returns a partial reading, and without an ACC token
\* the three acceleration fields are 0.0.
C6_ReadingIffPopulatedAndClean ==
    decoded # Pending =>
        /\ decoded # None <=>
              /\ \A key \in RequiredKeys : PopulatedByToken(Tokens(telemetry), key)
              /\ ~ConversionFailure(Tokens(telemetry), RequiredKeys)
        /\ NeverPartial

\* only the IR token is missing, the other three convert, and decode failed
C6_Witness ==
    /\ decoded = None
    /\ ~PopulatedByToken(Tokens(telemetry), K_IR)
    /\ \A key \in RequiredKeys \ {K_IR} : PopulatedByToken(Tokens(telemetry), key)
    /\ ~ConversionFailure(Tokens(telemetry), RecognizedKeys)

\* the reading a sender's values decode to
Sent(v) ==
    [ir_detection |-> v.ir,
     vibration_raw |-> v.vib,
     distance_adjusted |-> AsFloat(v.dist),
     acceleration_x |-> AsFloat(v.ax),
     acceleration_y |-> AsFloat(v.ay),
     acceleration_z |-> AsFloat(v.az),
     fault_detected |-> v.fault]

\* C7: decoding the wire string
\* IR:<ir>,VIB_RAW:<vib>,DIST_ADJ:<dist>,ACC:<ax>,<ay>,<az>,FAULT:<fault>
\* that a sender formats from its values yields exactly those values.
C7_RoundTrip ==
    (decoded # Pending /\ sender # <<>>) => decoded = Sent(sender[1])

\* a sender's values with a fractional distance and a negative fractional
\* acceleration came back from the decoder
C7_Witness ==
    /\ sender # <<>>
    /\ decoded = Sent(sender[1])
    /\ sender[1].dist = FloatNum([m |-> 185, e |-> 1])
    /\ sender[1].ay = FloatNum([m |-> -5, e |-> 2])
    /\ sender[1].ax = IntNum(-200)

\* the position of the last token with key ACC, 0 when there is none
LastAcc(tokens) ==
    LET accs == {i \in 1..Len(tokens) : HasKey(tokens[i], K_ACC)}
    IN IF accs = {} THEN 0 ELSE CHOOSE i \in accs : \A j \in accs : j <= i

\* C8: acceleration_y and acceleration_z come from the two tokens right
\* after the ACC token's own position; when ACC tokens repeat, also with the
\* same text, the last one determines the stored values from its own two
\* followers.
C8_OwnFollowers ==
    LET tokens == Tokens(telemetry)
        i == LastAcc(tokens)
    IN (/\ decoded # Pending /\ decoded # None
        /\ i > 0 /\ i + 2 <= Len(tokens)
        /\ float_ok(ValueOf(tokens[i]))
        /\ float_ok(tokens[i + 1]) /\ float_ok(tokens[i + 2]))
       => AccelerationIs(decoded, float(ValueOf(tokens[i])),
                         float(tokens[i + 1]), float(tokens[i + 2]))

\* C9 as written: a token with key IR, VIB_RAW, DIST_ADJ, ACC or FAULT whose
\* value does not convert makes parse_sensor_string return the failure
\* value.
C9_AnyFailureFails ==
    (decoded # Pending /\ ConversionFailure(Tokens(telemetry), RecognizedKeys))
        => decoded = None

\* C9 amended: a token with key IR, VIB_RAW, DIST_ADJ or FAULT whose value
\* does not convert makes parse_sensor_string return the failure value,
\* never a reading; an ACC value that does not convert does not fail the
\* decode.
C9_RequiredFailureFails ==
    LET tokens == Tokens(telemetry) IN
    decoded # Pending =>
        /\ ConversionFailure(tokens, RequiredKeys) => decoded = None
        /\ (/\ ConversionFailure(tokens, {K_ACC})
            /\ ~ConversionFailure(tokens, RequiredKeys)
            /\ \A key \in RequiredKeys : PopulatedByToken(tokens, key))
              => decoded # None

\* every required field is populated by a token, a further IR token does
\* not convert, and decode failed
C9_Witness ==
    /\ decoded = None
    /\ \A key \in RequiredKeys : PopulatedByToken(Tokens(telemetry), key)
    /\ ConversionFailure(Tokens(telemetry), {K_IR})

\* no ACC token, and each required key exactly once with a value that converts
WellFormed(tokens) ==
    /\ \A i \in 1..Len(tokens) : ~HasKey(tokens[i], K_ACC)
    /\ \A key \in RequiredKeys :
          /\ Cardinality({i \in 1..Len(tokens) : HasKey(tokens[i], key)}) = 1
          /\ PopulatedByToken(tokens, key)

Reordered(tokens, order) == [i \in 1..Len(tokens) |-> tokens[order[i]]]

\* the wire strings of every reordering of the tokens
Reorderings(tokens) ==
    {join(Reordered(tokens, order), ",") : order \in Permutations(1..Len(tokens))}

\* the wire strings with one more token of T inserted anywhere
Insertions(tokens, T) ==
    {join(InsertAt(tokens, pos, token), ",") : pos \in 0..Len(tokens), token \in T}

\* C10: for a string without ACC token that holds each of IR, VIB_RAW,
\* DIST_ADJ and FAULT once, every reordering of its tokens and every
\* insertion of a token with an unknown key or without ':' decodes to the
\* same reading.
C10_OrderAndUnknownTokens ==
    decoded # Pending =>
        \A tokens \in {Tokens(telemetry)} :
            WellFormed(tokens) =>
                /\ decoded # None
                /\ \A wire \in Insertions(tokens, UnknownTokens) :
                      parse_sensor_string(wire) = decoded
                /\ Len(tokens) <= MaxPermuted =>
                      \A wire \in Reorderings(tokens) :
                          parse_sensor_string(wire) = decoded

\* a decoded string of the four required tokens and one unknown token
C10_Witness ==
    /\ decoded # Pending /\ decoded # None
    /\ WellFormed(Tokens(telemetry))
    /\ Len(Tokens(telemetry)) = 5

(***************************************************************************)
(* Classification on its own: detect_faults applied to one dict, a decoded *)
(* reading in which at most MaxSpoiled fields hold no number.              *)
(***************************************************************************)
MaxSpoiled == 1

\* decoded readings around the thresholds
ClassifierReadings ==
    [ir_detection : {0, 1, 2},
     vibration_raw : {399, 400, 435, 450, 451},
     distance_adjusted : {Float(3), [m |-> 49, e |-> 1], Float(5), Float(25), Float(50),
                          [m |-> 501, e |-> 1]},
     acceleration_x : {Float(0), Float(1000), Float(-1001)},
     acceleration_y : {Float(0), Float(1001)},
     acceleration_z : {Float(0), [m |-> 10005, e |-> 1], Float(-1000)},
     fault_detected : {0}]

\* the fields the four rules read
ClassifiedFields ==
    {"vibration_raw", "distance_adjusted", "ir_detection",
     "acceleration_x", "acceleration_y", "acceleration_z"}

\* the dict with None in these fields
Spoiled(reading, fields) ==
    [k \in DOMAIN reading |-> IF k \in fields THEN None ELSE reading[k]]

InitClassify ==
    /\ readings = <<>>
    /\ fault_logs = <<>>
    /\ now = 0
    /\ pc = [w \in Workers |-> "idle"]
    /\ req = [w \in Workers |-> None]
    /\ response = None
    /\ stats = None
    /\ dashboard = None
    /\ resolution = None
    /\ query = None
    /\ sender = <<>>
    /\ telemetry = <<>>
    /\ decoded = Pending
    /\ classified = Pending
    /\ \E reading \in ClassifierReadings :
       \E fields \in {f \in SUBSET ClassifiedFields : Cardinality(f) <= MaxSpoiled} :
          classifier_input = Spoiled(reading, fields)

Classify ==
    /\ classified = Pending
    /\ classified' = detect_faults(classifier_input)
    /\ UNCHANGED <<readings, fault_logs, now, pc, req, response, stats, dashboard,
                   resolution, query, decoder, classifier_input>>

NextClassify == Classify

SpecClassify == InitClassify /\ [][NextClassify]_vars

(***************************************************************************)
(* Properties of the classifier.  The thresholds are restated in tenths,   *)
(* the unit of the inputs.                                                 *)
(***************************************************************************)
\* a float with at most one decimal place, in tenths
Tenths(f) == IF f.e = 0 THEN f.m * 10 ELSE f.m

\* the fields of each category
FieldsOf(category) ==
    IF category = "vibration_fault" THEN {"vibration_raw"}
    ELSE IF category = "distance_fault" THEN {"distance_adjusted"}
    ELSE IF category = "ir_fault" THEN {"ir_detection"}
    ELSE {"acceleration_x", "acceleration_y", "acceleration_z"}

Categories == {"vibration_fault", "distance_fault", "ir_fault", "acceleration_fault"}

\* the rule of a category, on a dict whose fields of that category are numbers
Rule(category, reading) ==
    IF category = "vibration_fault"
    THEN 400 <= reading.vibration_raw /\ reading.vibration_raw <= 450
    ELSE IF category = "distance_fault"
    THEN Tenths(reading.distance_adjusted) < 50 \/ Tenths(reading.distance_adjusted) > 500
    ELSE IF category = "ir_fault"
    THEN reading.ir_detection = 1
    ELSE \/ Magnitude(Tenths(reading.acceleration_x)) > 10000
         \/ Magnitude(Tenths(reading.acceleration_y)) > 10000
         \/ Magnitude(Tenths(reading.acceleration_z)) > 10000

\* every field of the category holds a number
Evaluable(category, reading) ==
    \A k \in FieldsOf(category) : IsNumber(reading[k])

AllNumbers(reading) == \A k \in ClassifiedFields : IsNumber(reading[k])

\* C11: for a decoded reading detect_faults returns vibration_fault =
\* (400 <= vibration_raw <= 450), distance_fault = (distance_adjusted < 5.0
\* or > 50.0), ir_fault = (ir_detection = 1), acceleration_fault = (|x|, |y|
\* or |z| > 1000), each flag a function of its own fields only; 400 and 450
\* are vibration faults, 399 and 451 are not, the distances 5.0 and 50.0 and
\* the acceleration magnitude 1000 are no faults.
C11_Thresholds ==
    (classified # Pending /\ AllNumbers(classifier_input)) =>
        /\ DOMAIN classified = Categories
        /\ \A category \in Categories :
              classified[category] = Rule(category, classifier_input)
        /\ classifier_input.vibration_raw \in {400, 450} => classified.vibration_fault
        /\ classifier_input.vibration_raw \in {399, 451} => ~classified.vibration_fault
        /\ classifier_input.distance_adjusted \in {Float(5), Float(50)}
              => ~classified.distance_fault
        /\ (/\ classifier_input.acceleration_x \in {Float(0), Float(1000)}
            /\ classifier_input.acceleration_y = Float(0)
            /\ classifier_input.acceleration_z \in {Float(0), Float(-1000)})
              => ~classified.acceleration_fault

\* classified: a reading on the thresholds 450, 50.0 and 1000, without fault
C11_Witness ==
    /\ classified # Pending
    /\ AllNumbers(classifier_input)
    /\ classifier_input.vibration_raw = 450
    /\ classifier_input.distance_adjusted = Float(50)
    /\ classifier_input.ir_detection = 0
    /\ classifier_input.acceleration_x = Float(1000)
    /\ classifier_input.acceleration_y = Float(0)
    /\ classifier_input.acceleration_z = Float(-1000)
    /\ classified = [vibration_fault |-> TRUE, distance_fault |-> FALSE,
                     ir_fault |-> FALSE, acceleration_fault |-> FALSE]

\* C12: detect_faults returns for every dict; the flag of a category whose
\* rule raises is false, and the flag of every other category is the one its
\* own rule gives, whether that rule comes before or after the failing one.
C12_FailuresIsolated ==
    classified # Pending =>
        /\ DOMAIN classified = Categories
        /\ \A category \in Categories :
              IF Evaluable(category, classifier_input)
              THEN classified[category] = Rule(category, classifier_input)
              ELSE classified[category] = FALSE

(***************************************************************************)
(* Connection status on its own: the two aggregation endpoints applied to  *)
(* the store found at start-up, itms_data.db with up to MaxStored earlier  *)
(* readings, while the clock runs.                                         *)
(***************************************************************************)
MaxStored == 2

\* the timestamps of the earlier readings
StoredStamps == {0, 5, 10, 12}

\* the tables of up to n readings with these timestamps
StoredTables(n) ==
    {Insert(<<>>, [i \in 1..Len(stamps) |->
                      fallback_reading(CHOOSE v \in SimulatedValues : v.ir = 0, stamps[i])]) :
        stamps \in UNION {[1..k -> StoredStamps] : k \in 0..n}}

InitStatus ==
    /\ readings \in StoredTables(MaxStored)
    /\ fault_logs = <<>>
    /\ now = OpsStart
    /\ pc = [w \in Workers |-> "idle"]
    /\ req = [w \in Workers |-> None]
    /\ response = None
    /\ stats = None
    /\ dashboard = None
    /\ resolution = None
    /\ query = None
    /\ sender = <<>>
    /\ telemetry = <<>>
    /\ decoded = Pending
    /\ classifier_input = <<>>
    /\ classified = Pending

NextStatus ==
    \/ stats_query
    \/ dashboard_query
    \/ select_total_readings
    \/ select_total_faults
    \/ select_avg_stats
    \/ select_last_reading
    \/ select_ir_detections_today
    \/ select_active_faults
    \/ Elapse

SpecStatus == InitStatus /\ [][NextStatus]_vars

\* the greatest timestamp of a table that is not empty
GreatestStamp(table) ==
    CHOOSE t \in {table[i].timestamp : i \in 1..Len(table)} :
        \A i \in 1..Len(table) : table[i].timestamp <= t

\* the status the age of the latest reading gives
StatusOfAge(age) ==
    IF age > 10 THEN "disconnected"
    ELSE IF age > 5 THEN "warning"
    ELSE "connected"

\* C13: the connection status is a function of the age of the latest stored
\* reading alone: no_data without reading, disconnected above 10 s, warning
\* above 5 s and up to 10 s, connected up to 5 s; age 5 is connected, age 10
\* is warning, and the ages 2, 7 and 12 give connected, warning and
\* disconnected, whatever an earlier query returned.
C13_StatusByAge ==
    dashboard # None =>
        IF readings = <<>> THEN dashboard.connection_status = "no_data"
        ELSE /\ dashboard.connection_status = StatusOfAge(now - GreatestStamp(readings))
             /\ now - GreatestStamp(readings) \in {2, 5} =>
                    dashboard.connection_status = "connected"
             /\ now - GreatestStamp(readings) \in {7, 10} =>
                    dashboard.connection_status = "warning"
             /\ now - GreatestStamp(readings) = 12 =>
                    dashboard.connection_status = "disconnected"

\* a query found the latest of two readings exactly 10 seconds old
C13_Witness ==
    /\ dashboard # None
    /\ Len(readings) = 2
    /\ now - GreatestStamp(readings) = 10
    /\ dashboard.connection_status = "warning"

(***************************************************************************)
(* Properties of the service in operation                                  *)
(***************************************************************************)
\* the number of hundredths a decimal with at most two places stands for
Hundredths(f) == f.m * Pow10(2 - f.e)

\* the fault events that are not resolved
Unresolved(table) == {i \in 1..Len(table) : ~table[i].resolved}

\* the statistics an answer carries: those of /stats, or of /dashboard
Answered ==
    (IF stats # None THEN {stats} ELSE {}) \cup
    (IF dashboard # None THEN {dashboard.stats} ELSE {})

\* the rate is exactly total_faults / total_readings * 100 of the counts
\* the answer carries, or 0 without readings
ExactRate(answer) ==
    IF answer.total_readings > 0
    THEN Hundredths(answer.fault_rate) * answer.total_readings = answer.total_faults * 10000
    ELSE answer.fault_rate = Float(0)

\* the rate is total_faults / total_readings * 100 of the counts the answer
\* carries, rounded to two places, or 0 without readings
RoundedRate(answer) ==
    IF answer.total_readings > 0
    THEN /\ answer.fault_rate.e <= 2
         /\ 2 * Magnitude(Hundredths(answer.fault_rate) * answer.total_readings
                             - answer.total_faults * 10000)
                <= answer.total_readings
    ELSE answer.fault_rate = Float(0)

\* the counts of a call are those of the tables when it counts them, and
\* its answer carries them
CountsStored ==
    /\ stats_query => query'.total_readings = Len(readings)
    /\ select_total_readings => query'.total_readings = Len(readings)
    /\ select_total_faults => query'.total_faults = Len(fault_logs)
    /\ select_active_faults =>
          \A answer \in Answered' :
              /\ answer.total_readings = query.total_readings
              /\ answer.total_faults = query.total_faults

\* C14 as stated: total_readings and total_faults count the stored readings
\* and fault events, and fault_rate is exactly total_faults / total_readings
\* * 100, or 0 without readings.
C14_ExactRate ==
    [][/\ CountsStored
       /\ \A answer \in Answered' : ExactRate(answer)]_vars

\* C14, amended: total_readings and total_faults count the stored readings
\* and fault events; fault_rate is total_faults / total_readings * 100
\* rounded to two places, or 0 without readings; on an empty store the
\* averages are 0, there is no last reading time and the dashboard reports
\* no_data.
C14_RoundedRate ==
    [][/\ CountsStored
       /\ \A answer \in Answered' :
            /\ RoundedRate(answer)
            /\ readings' = <<>> =>
                  /\ answer.total_readings = 0
                  /\ answer.fault_rate = Float(0)
                  /\ answer.avg_vibration = Float(0)
                  /\ answer.avg_distance = Float(0)
                  /\ answer.last_reading_time = <<>>
       /\ (dashboard' # None /\ readings' = <<>>) =>
              dashboard'.connection_status = "no_data"]_vars

\* /stats answered on three readings with two fault events, one of them
\* resolved: the rate is 66.67
C14_Witness ==
    /\ stats # None
    /\ Len(readings) = 3
    /\ stats.total_readings = 3
    /\ stats.total_faults = 2
    /\ stats.active_faults = 1
    /\ stats.fault_rate = [m |-> 6667, e |-> 2]

(***************************************************************************)
(* Further properties of ingestion                                         *)
(***************************************************************************)
\* C15: a call whose string cannot be decoded is answered with status 400
\* and "Invalid sensor data format", an answer that differs in its status
\* from the 500 of a store failure.
C15_InvalidFormatIs400 ==
    [][\A w \in Workers, data \in UndecodablePayloads :
          Received(w, data) =>
              /\ response'.status_code = HTTP_400
              /\ response'.status_code # Failure(StoreError).status_code]_vars

\* the timestamp strings of the payloads: one that parses, one that does not
GoodStamp == IsoMinute \o <<"0", "1">>
GoodStampTime == fromisoformat(GoodStamp)
BadStamp == <<"x">>

\* the payload with the same string and the timestamp that parses
WithGoodStamp(data) == [data EXCEPT !.timestamp = GoodStamp]

\* two records that differ in their timestamp at most
SameButTimestamp(a, b) == [a EXCEPT !.timestamp = 0] = [b EXCEPT !.timestamp = 0]

\* the rows a step has added to a table
Added(before, after) == SubSeq(after, Len(before) + 1, Len(after))

\* C16: for every decodable string and every timestamp string
\* process_sensor_input returns a record; with a timestamp string that does
\* not parse the record's timestamp is the current time, and the reading and
\* its fault events are stored as they are for a timestamp that parses.
C16_TimestampNeverFails ==
    [][/\ \A data \in Payloads \ UndecodablePayloads :
            /\ data.timestamp \in {GoodStamp, BadStamp}
            /\ Processed(data, now) # None
            /\ Processed(data, now).timestamp =
                  (IF data.timestamp = BadStamp THEN now ELSE GoodStampTime)
            /\ SameButTimestamp(Processed(data, now), Processed(WithGoodStamp(data), now))
            /\ \A w \in Workers :
                  receive_reading_commit(w, data) =>
                      /\ Len(Added(readings, readings')) = 1
                      /\ readings'[Len(readings')].timestamp =
                            (IF data.timestamp = BadStamp THEN now ELSE GoodStampTime)
                      /\ SameButTimestamp(
                            readings'[Len(readings')],
                            Insert(readings,
                                   <<DBSensorReading(Processed(WithGoodStamp(data), now))>>)
                                [Len(readings')])
       /\ \A w \in Workers :
            receive_faults_commit(w) =>
                Added(fault_logs, fault_logs') =
                    Added(fault_logs,
                          Insert(fault_logs,
                                 new_fault_logs([req[w].processed_data
                                                    EXCEPT !.timestamp = GoodStampTime],
                                                req[w].reading_id, now)))]_vars

\* a reading whose timestamp did not parse is stored with the time of its
\* ingestion, and its fault events are stored with it
C16_Witness ==
    \E i \in 1..Len(readings) :
        /\ readings[i].timestamp = 0
        /\ \E j \in 1..Len(fault_logs) : fault_logs[j].sensor_reading_id = i

(***************************************************************************)
(* Further properties of the service in operation                          *)
(***************************************************************************)
\* every statement of the call in progress has read what the tables hold now
SawThisStore ==
    /\ query.total_readings = Len(readings)
    /\ query.total_faults = Len(fault_logs)
    /\ query.call = "dashboard" => query.latest_reading \in latest_reading(readings)

\* C17: get_sensor_stats and get_dashboard_data leave every reading and
\* every fault event as it is, and the statistics and the connection status
\* of a call are determined by the store it has read and the clock value, so
\* that two calls on the same store at the same clock value return the same.
C17_ReadOnlyIdempotent ==
    [][/\ query' # query =>
            /\ readings' = readings
            /\ fault_logs' = fault_logs
       /\ (stats' # None /\ SawThisStore) =>
            stats' = get_sensor_stats(readings, fault_logs)
       /\ (dashboard' # None /\ SawThisStore) =>
            /\ dashboard'.stats = get_sensor_stats(readings, fault_logs)
            /\ \A latest \in latest_reading(readings) :
                  dashboard'.connection_status = connection_status(latest, now)]_vars

\* /dashboard answered on a store with readings, a resolved and an
\* unresolved fault event
C17_Witness ==
    /\ dashboard # None
    /\ Len(readings) >= 2
    /\ Unresolved(fault_logs) # {}
    /\ Unresolved(fault_logs) # 1..Len(fault_logs)
    /\ dashboard.stats = get_sensor_stats(readings, fault_logs)
    /\ dashboard.stats.active_faults = Cardinality(Unresolved(fault_logs))

\* C19: a fault event is created unresolved and a resolved event stays
\* resolved in every later step; the number of unresolved events grows only
\* in a step of receive_sensor_data, shrinks only in a step of resolve_fault
\* and is at most the number of events, and it is what /stats reports as
\* active_faults; resolve_fault on an id that is not stored answers 404 and
\* changes no event.
C19_ResolvedStays ==
    [][/\ Len(fault_logs') >= Len(fault_logs)
       /\ \A i \in 1..Len(fault_logs) : fault_logs[i].resolved => fault_logs'[i].resolved
       /\ \A i \in (Len(fault_logs) + 1)..Len(fault_logs') : ~fault_logs'[i].resolved
       /\ Cardinality(Unresolved(fault_logs')) > Cardinality(Unresolved(fault_logs)) =>
              \E w \in OpsWorkers : receive_faults_commit(w)
       /\ Cardinality(Unresolved(fault_logs')) < Cardinality(Unresolved(fault_logs)) =>
              \E w \in ResolveWorkers : resolve_fault_commit(w)
       /\ Cardinality(Unresolved(fault_logs')) <= Len(fault_logs')
       /\ stats' # None =>
              stats'.active_faults = Cardinality(Unresolved(fault_logs'))
       /\ (resolution' # None /\ resolution'.fault_id \notin 1..Len(fault_logs)) =>
              /\ resolution'.status_code = HTTP_404
              /\ fault_logs' = fault_logs]_vars

\* an unknown id was answered with 404 while an event resolved before a
\* later ingestion is still resolved and the later events are unresolved
C19_Witness ==
    /\ resolution # None
    /\ resolution.status_code = HTTP_404
    /\ \E i \in 1..Len(fault_logs), j \in 1..Len(fault_logs) :
          /\ fault_logs[i].resolved
          /\ ~fault_logs[j].resolved
          /\ fault_logs[i].sensor_reading_id < fault_logs[j].sensor_reading_id

\* the categories of fault events
FaultTypes == {"vibration", "distance", "ir", "acceleration"}

\* the fault events of a category that belong to a reading
EventsOfType(reading_id, fault_type) ==
    {j \in 1..Len(fault_logs) :
        /\ fault_logs[j].sensor_reading_id = reading_id
        /\ fault_logs[j].fault_type = fault_type}

\* C20: every fault event's sensor_reading_id is the id of a stored reading,
\* a reading has at most one fault event of each category, there are at most
\* four times as many fault events as readings, and the fault_rate of the
\* store is at most 400.
C20_EventsBelongToReadings ==
    /\ \A j \in 1..Len(fault_logs) :
          /\ fault_logs[j].fault_type \in FaultTypes
          /\ \E i \in 1..Len(readings) : readings[i].id = fault_logs[j].sensor_reading_id
    /\ \A i \in 1..Len(readings) :
          /\ \A k \in 1..Len(readings) : readings[k].id = readings[i].id => k = i
          /\ \A fault_type \in FaultTypes :
                Cardinality(EventsOfType(readings[i].id, fault_type)) <= 1
    /\ Len(fault_logs) <= 4 * Len(readings)
    /\ Hundredths(fault_rate(Len(fault_logs), Len(readings))) <= 40000

\* /stats reports a fault_rate above 100 on a store that holds a reading
\* without obstruction event and a resolved fault event
C20_Witness ==
    /\ stats # None
    /\ stats.fault_rate = fault_rate(Len(fault_logs), Len(readings))
    /\ Hundredths(stats.fault_rate) > 10000
    /\ \E i \in 1..Len(readings) : EventsOfType(readings[i].id, "ir") = {}
    /\ Unresolved(fault_logs) # 1..Len(fault_logs)

(***************************************************************************)
(* Further properties of the decoder                                       *)
(***************************************************************************)
\* the positions of the tokens with key ACC
AccPositions(tokens) == {i \in 1..Len(tokens) : HasKey(tokens[i], K_ACC)}

\* the two tokens after position i are there and convert to float
FollowersConvert(tokens, i) ==
    /\ i + 2 <= Len(tokens)
    /\ float_ok(tokens[i + 1])
    /\ float_ok(tokens[i + 2])

\* C18: on a string with one ACC token and every required field populated
\* the decode does not fail; when the ACC value converts and one of the two
\* tokens after it is absent or does not convert, acceleration_x is the ACC
\* value and acceleration_y and acceleration_z are 0.0; when the ACC value
\* does not convert all three are 0.0.
C18_AccDefaults ==
    LET tokens == Tokens(telemetry)
        i == LastAcc(tokens)
    IN (/\ decoded # Pending
        /\ Cardinality(AccPositions(tokens)) = 1
        /\ ~ConversionFailure(tokens, RequiredKeys)
        /\ \A key \in RequiredKeys : PopulatedByToken(tokens, key))
       => /\ decoded # None
          /\ IF float_ok(ValueOf(tokens[i]))
             THEN ~FollowersConvert(tokens, i) =>
                      AccelerationIs(decoded, float(ValueOf(tokens[i])), Float(0), Float(0))
             ELSE AccelerationIs(decoded, Float(0), Float(0), Float(0))

(***************************************************************************)
(* The latest reading: ingestion and the two aggregation endpoints on the  *)
(* store found at start-up, whose readings carry timestamps before, at and *)
(* after the time of the start.                                            *)
(***************************************************************************)
NextLatest ==
    \/ \E w \in OpsWorkers, data \in LatestPayloads : receive_invalid(w, data)
    \/ \E w \in OpsWorkers, data \in LatestPayloads : receive_reading_rejected(w, data)
    \/ \E w \in OpsWorkers, data \in LatestPayloads : receive_reading_commit(w, data)
    \/ \E w \in OpsWorkers, data \in LatestPayloads : receive_reading_commit_fails(w, data)
    \/ \E w \in OpsWorkers : receive_faults_commit(w)
    \/ \E w \in OpsWorkers : receive_faults_commit_fails(w)
    \/ stats_query
    \/ dashboard_query
    \/ select_total_readings
    \/ select_total_faults
    \/ select_avg_stats
    \/ select_last_reading
    \/ select_ir_detections_today
    \/ select_active_faults
    \/ Elapse

SpecLatest == InitStatus /\ [][NextLatest]_vars

\* C21: the latest reading of /dashboard and the last_reading_time of /stats
\* are those of the stored reading with the greatest timestamp; a reading
\* ingested with a timestamp below that maximum leaves last_reading_time and,
\* at the same clock value, the connection status as they were; a latest
\* reading with a timestamp after the clock value gives connected.
C21_LatestIsGreatest ==
    [][/\ (dashboard_query /\ readings # <<>>) =>
            query'.latest_reading[1].timestamp = GreatestStamp(readings)
       /\ (select_last_reading /\ readings # <<>>) =>
            query'.last_reading_time = <<GreatestStamp(readings)>>
       /\ (dashboard' # None /\ query.latest_reading # <<>>) =>
            /\ dashboard'.latest_reading = query.latest_reading
            /\ dashboard'.stats.last_reading_time = query.last_reading_time
            /\ dashboard'.connection_status
                  = StatusOfAge(now - query.latest_reading[1].timestamp)
            /\ query.latest_reading[1].timestamp > now =>
                  dashboard'.connection_status = "connected"
       /\ (/\ Len(readings') = Len(readings) + 1
           /\ readings # <<>>
           /\ \E w \in OpsWorkers, data \in LatestPayloads : receive_reading_commit(w, data)
           /\ readings'[Len(readings')].timestamp < GreatestStamp(readings)) =>
            /\ now' = now
            /\ latest_reading(readings') = latest_reading(readings)
            /\ \A latest \in latest_reading(readings') :
                  /\ connection_status(latest, now')
                        = StatusOfAge(now - GreatestStamp(readings))
                  /\ last_reading_time(latest) = <<GreatestStamp(readings)>>
            /\ get_sensor_stats(readings', fault_logs').last_reading_time
                  = get_sensor_stats(readings, fault_logs).last_reading_time]_vars

\* /dashboard answers connected, with the earlier reading as the latest one,
\* after the ingestion of an obstruction reading with an older timestamp,
\* while the earlier reading's timestamp is after the clock value
C21_Witness ==
    /\ dashboard # None
    /\ Len(readings) = 2
    /\ readings[2].ir_detection = 1
    /\ readings[2].timestamp < readings[1].timestamp
    /\ readings[1].timestamp > now
    /\ dashboard.latest_reading = <<readings[1]>>
    /\ dashboard.connection_status = "connected"

(***************************************************************************)
(* The fallback generator                                                  *)
(***************************************************************************)
\* C22: from the generator's first wake-up, WAKE_EVERY seconds after the
\* start, the store holds a reading, the latest reading is at most 10 s old
\* and /dashboard reports neither no_data nor disconnected.
C22_GeneratorKeepsAlive ==
    now >= OpsStart + WAKE_EVERY =>
        /\ readings # <<>>
        /\ now - GreatestStamp(readings) <= DISCONNECTED_AFTER
        /\ dashboard # None => dashboard.connection_status \in {"connected", "warning"}

====
